---- MODULE Spec2Model ----
(***************************************************************************)
(* Minimal Version Selection (cmd/go/internal/mvs).                        *)
(*                                                                         *)
(* The model follows mvs.go: the parallel graph explorer of buildList, its *)
(* error-path reporter and finalizer, and the operations built on it       *)
(* (BuildList, Req, UpgradeAll, Upgrade).  The requirement provider (Reqs) *)
(* is the caller's: its answers are drawn from bounded sets the first time *)
(* a vertex is asked about and are remembered, so that the provider is     *)
(* deterministic.                                                          *)
(*                                                                         *)
(* Encoding.  Module paths are 0..NPaths-1, compared as the strings "A" <  *)
(* "B" < "C" ...; RootPath is the target's path.  Versions are integers:   *)
(* None is "none", 1..MaxVer are released versions, RootVer is the         *)
(* target's version, EmptyVer is the Go zero string "".                    *)
(***************************************************************************)
EXTENDS Integers, Sequences, FiniteSets, TLC

\* ---------------------------------------------------------------- bounds
NPaths == 3
MaxVer == 2
MaxReq == 2
MaxNodes == 4
MaxUpgradeNodes == 3
NumWorkers == 2
MaxBase == 3
MaxExtras == 2

\* ------------------------------------------------------- module.Version
None == 0
EmptyVer == 0 - 1
NoPath == 0 - 1
RootPath == 1
RootVer == MaxVer + 1

Paths == 0 .. (NPaths - 1)

V(p, v) == [path |-> p, version |-> v]

Root == V(RootPath, RootVer)

\* The zero module.Version{}: Path "" and Version "".
NoVersion == V(NoPath, EmptyVer)

\* Every vertex a provider may name: each path at "none" and at each released
\* version, and the target itself.
Vertices == {V(p, v) : p \in Paths, v \in None .. MaxVer} \cup {Root}

\* reqs.Max for a provider that keeps the contract of lines 35-43: a total
\* order in which "none" is least and the target's version greatest.
Max(v1, v2) ==
    IF v1 = None THEN v2
    ELSE IF v2 = None THEN v1
    ELSE IF v1 >= v2 THEN v1 ELSE v2

\* The implementations of reqs.Max a provider may come with.  "contract"
\* keeps lines 35-43.  "plain" compares the versions as they are, so that the
\* target's version (the empty string, for the main client) is below every
\* other version of its path.  "second" returns its second argument.
MaxImpls == {"contract", "plain", "second"}

\* Where a version stands when compared without regard for the target.
PlainRank(v) == IF v = RootVer THEN None ELSE v

\* reqs.Max as the provider implements it.
MaxBy(c, v1, v2) ==
    IF c = "contract" THEN Max(v1, v2)
    ELSE IF c = "second" THEN v2
    ELSE IF v1 = None THEN v2
    ELSE IF v2 = None THEN v1
    ELSE IF PlainRank(v1) >= PlainRank(v2) THEN v1 ELSE v2

\* ------------------------------------------------------------- helpers
Range(s) == {s[i] : i \in 1 .. Len(s)}

\* A Go map lookup: the zero value when the key is absent.
Lookup(m, k, zero) == IF k \in DOMAIN m THEN m[k] ELSE zero

\* The empty Go map.
EmptyMap == [x \in {} |-> 0]

\* m with m[k] = v, the key added when absent.
Put(m, k, v) == [x \in DOMAIN m \cup {k} |-> IF x = k THEN v ELSE m[x]]

\* The error value of a failed provider call on m, and the nil error.
ErrOf(m, call) == [vertex |-> m, call |-> call]

NoErr == [vertex |-> NoVersion, call |-> "nil"]

\* What a provider call returns: a value and a nil error ("ok"), or an error
\* ("fail"); "unknown" marks a vertex the provider has not been asked about.
Ok(x) == [st |-> "ok", val |-> x]

Fail == [st |-> "fail", val |-> <<>>]

Unknown == [st |-> "unknown", val |-> <<>>]

\* Sequences over S of length at most n.
SeqsUpTo(S, n) == UNION {[1 .. k -> S] : k \in 0 .. n}

\* Requirement lists: at most MaxReq entries, one per path, never the
\* requiring module's own path.
ReqLists(m) ==
    {s \in SeqsUpTo({x \in Vertices : x.path # m.path}, MaxReq) :
        \A i, j \in 1 .. Len(s) : i # j => s[i].path # s[j].path}

\* What reqs.Required(m) may return.  A vertex at "none" is not in the build
\* and has no requirements of its own.
RequiredAnswers(m) ==
    IF m.version = None THEN {Ok(<<>>), Fail}
    ELSE {Ok(s) : s \in ReqLists(m)} \cup {Fail}

\* What reqs.Upgrade(m) may return: m itself, a released version of the same
\* path, or an error.
UpgradeAnswers(m) == {Ok(m), Fail} \cup {Ok(V(m.path, v)) : v \in 1 .. MaxVer}

\* ------------------------------------------------------------- state
VARIABLES
    op,        \* the operation called: "BuildList", "Req", "UpgradeAll", "Upgrade"
    base,      \* Req: the base paths
    extras,    \* Upgrade: the extra modules to upgrade
    reqd,      \* the provider: reqs.Required, as far as it has been asked
    upg,       \* the provider: reqs.Upgrade, as far as it has been asked
    ovList,    \* Upgrade: override.list, the target's amended requirement list
    upgradeTo, \* Upgrade: the upgradeTo map
    added,     \* par.Work: every item ever added
    todo,      \* par.Work: the items added and not yet taken
    pc,        \* per worker: where it is in the function passed to work.Do
    item,      \* per worker: the item it is processing
    mu,        \* the mutex: 0 when free, else the worker holding it
    modGraph,  \* buildList: the graph map
    min,       \* buildList: module path -> selected version
    haveErr,   \* buildList: the has-error flag
    phase,     \* "call", "explore", "explored", "req", "done", "hung"
    result,    \* what the operation returned
    prev,      \* the provider: reqs.Previous, as far as it has been asked
    down,      \* Downgrade: its arguments, its locals and where it is
    maxImpl,   \* the provider: its implementation of reqs.Max
    nextAdd    \* per worker: the entry of node.required the loop of line 125 is at

vars == <<op, base, extras, reqd, upg, ovList, upgradeTo, added, todo, pc, item,
          mu, modGraph, min, haveErr, phase, result, prev, down, maxImpl,
          nextAdd>>

Workers == 1 .. NumWorkers

Ops == {"BuildList", "Req", "UpgradeAll", "Upgrade"}

\* What an operation returns: a list and a nil error ("list"), a nil list and
\* an error ("error"; a build-list error carries errPath and pathUpgrade), or
\* nothing because it panicked ("panic").  "none": not returned yet.
Outcome(kind, list, err, errPath, pathUpgrade) ==
    [kind |-> kind, list |-> list, err |-> err, errPath |-> errPath,
     pathUpgrade |-> pathUpgrade]

NoResult == Outcome("none", <<>>, NoErr, <<>>, EmptyMap)

ListResult(list) == Outcome("list", list, NoErr, <<>>, EmptyMap)

\* A plain error, as returned by a provider call.
ErrorResult(err) == Outcome("error", <<>>, err, <<>>, EmptyMap)

Panic == Outcome("panic", <<>>, NoErr, <<>>, EmptyMap)

\* The error-path reporter never returns.
Hang == Outcome("hang", <<>>, NoErr, <<>>, EmptyMap)

\* ------------------------------------------------------ the upgrade function
\* The third argument of buildList, as data: "nil" (BuildList, Req), "all"
\* (UpgradeAll's closure over reqs.Upgrade) or "to" (Upgrade's closure over
\* upgradeTo).
UpgradeMode(o) ==
    CASE o = "UpgradeAll" -> "all"
      [] o = "Upgrade" -> "to"
      [] OTHER -> "nil"

\* Upgrade's closure, lines 357-362.
UpgradeToFn(to, m) ==
    IF m.path \in DOMAIN to THEN V(m.path, to[m.path]) ELSE m

\* ------------------------------------------------------------ buildList
\* node := &modGraphNode{m: m}, line 108.
NewNode(m) == [m |-> m, required |-> <<>>, upgrade |-> NoVersion, err |-> NoErr]

\* Lines 111-115 with a last-writer-wins slip: the comparison is dropped.
MinUpdateOverwrite(mn, m) ==
    IF m.version # None THEN Put(mn, m.path, m.version) ELSE mn

\* Lines 111-115 without the reqs.Max half of the test: the first version
\* seen of a path stays.
MinUpdateKeepFirst(mn, m) ==
    IF m.version # None /\ m.path \notin DOMAIN mn
    THEN Put(mn, m.path, m.version)
    ELSE mn

\* Lines 112-114 without the test of line 111: a vertex at "none" is folded
\* into the per-path maximum like any other.
MinUpdateWithNone(mn, m) ==
    IF m.path \notin DOMAIN mn \/ Max(mn[m.path], m.version) # mn[m.path]
    THEN Put(mn, m.path, m.version)
    ELSE mn

\* Lines 111-115: fold m.Version into the per-path maximum.
MinUpdate(mn, m) ==
    IF m.version # None
    THEN IF m.path \notin DOMAIN mn \/ Max(mn[m.path], m.version) # mn[m.path]
         THEN Put(mn, m.path, m.version)
         ELSE mn
    ELSE mn

\* Lines 111-115 for a provider whose reqs.Max is implementation c.
MinUpdateBy(c, mn, m) ==
    IF c = "contract" THEN MinUpdate(mn, m)
    ELSE IF m.version # None
    THEN IF m.path \notin DOMAIN mn \/ MaxBy(c, mn[m.path], m.version) # mn[m.path]
         THEN Put(mn, m.path, m.version)
         ELSE mn
    ELSE mn

\* setErr, lines 98-101, on the node of m.
SetErr(mg, m, err) == [mg EXCEPT ![m].err = err]

\* The vertices an answer of reqs.Required or of the upgrade function brings
\* into the graph, with the upgrade targets Upgrade's closure will add for them.
Brought(S, to) == S \cup {UpgradeToFn(to, x) : x \in S}

\* The explored graph stays within MaxNodes vertices, and within
\* MaxUpgradeNodes when an upgrade function is in use.
NodeBudget(o) == IF UpgradeMode(o) = "nil" THEN MaxNodes ELSE MaxUpgradeNodes

\* The vertices stored in the nodes of the graph: every node.required and
\* node.upgrade, whether work.Add has been called for them yet or not.
Stored(mg) ==
    UNION {Range(mg[x].required)
               \cup (IF mg[x].upgrade.path # NoPath THEN {mg[x].upgrade} ELSE {})
           : x \in DOMAIN mg}

WithinBudget(S, to) ==
    Cardinality(Brought(added \cup Stored(modGraph) \cup S, to)) <= NodeBudget(op)


\* ---------------------------------------------------- error-path reporter
\* neighbors := node.required, plus node.upgrade when set, lines 181-184.
Neighbors(node) ==
    IF node.upgrade.path # NoPath
    THEN Append(node.required, node.upgrade)
    ELSE node.required

\* Lines 185-192 with the queue used as a stack: a neighbour is put in front
\* of the queue, which makes the search depth-first.
RECURSIVE VisitNeighborsLifo(_, _, _, _)
VisitNeighborsLifo(nbrs, i, n, st) ==
    IF i > Len(nbrs) THEN st
    ELSE IF nbrs[i] \in DOMAIN st.neededBy
         THEN VisitNeighborsLifo(nbrs, i + 1, n, st)
         ELSE VisitNeighborsLifo(nbrs, i + 1, n,
                  [q |-> <<nbrs[i]>> \o st.q,
                   neededBy |-> Put(st.neededBy, nbrs[i], n)])

\* Lines 185-192: the neighbours not yet needed by anything are recorded
\* as needed by n and queued.  st is [q, neededBy].
RECURSIVE VisitNeighbors(_, _, _, _)
VisitNeighbors(nbrs, i, n, st) ==
    IF i > Len(nbrs) THEN st
    ELSE IF nbrs[i] \in DOMAIN st.neededBy
         THEN VisitNeighbors(nbrs, i + 1, n, st)
         ELSE VisitNeighbors(nbrs, i + 1, n,
                  [q |-> Append(st.q, nbrs[i]),
                   neededBy |-> Put(st.neededBy, nbrs[i], n)])

Reverse(s) == [i \in 1 .. Len(s) |-> s[Len(s) + 1 - i]]

\* Lines 160-166 without the test of line 162: every step of the walk back
\* is recorded in pathUpgrade, whatever edge it follows.
RECURSIVE WalkBackAllUpgrades(_, _, _, _, _)
WalkBackAllUpgrades(mg, neededBy, cur, acc, seen) ==
    IF cur \notin DOMAIN neededBy
    THEN Outcome("walked", <<>>, NoErr, Reverse(acc.path), acc.pathUpgrade)
    ELSE LET n == neededBy[cur]
         IN  IF n \in seen THEN Hang
             ELSE WalkBackAllUpgrades(mg, neededBy, n,
                      [path |-> Append(acc.path, n),
                       pathUpgrade |-> Put(acc.pathUpgrade, n, cur)],
                      seen \cup {n})

\* Lines 160-166: follow neededBy from the failing node back to the target.
\* cur is the node appended last.  The loop ends only at a node nothing is
\* recorded for; when the chain comes back to a node it has passed it never
\* ends (errPath grows without bound), and the result is "hang".
RECURSIVE WalkBack(_, _, _, _, _)
WalkBack(mg, neededBy, cur, acc, seen) ==
    IF cur \notin DOMAIN neededBy
    THEN Outcome("walked", <<>>, NoErr, Reverse(acc.path), acc.pathUpgrade)
    ELSE LET n == neededBy[cur]
         IN  IF n \in seen THEN Hang
             ELSE WalkBack(mg, neededBy, n,
                      [path |-> Append(acc.path, n),
                       pathUpgrade |->
                           IF mg[n].upgrade = cur
                           THEN Put(acc.pathUpgrade, n, cur)
                           ELSE acc.pathUpgrade],
                      seen \cup {n})

\* Lines 150-193: breadth-first search from the target for a node that holds
\* an error.  NoResult when the queue drains without one.
RECURSIVE Reporter(_, _)
Reporter(mg, st) ==
    IF st.q = <<>> THEN NoResult
    ELSE LET n == Head(st.q)
             node == mg[n]
             rest == [st EXCEPT !.q = Tail(st.q)]
         IN  IF node.err # NoErr
             THEN LET walk == WalkBack(mg, st.neededBy, n,
                                       [path |-> <<n>>, pathUpgrade |-> EmptyMap],
                                       {n})
                  IN  IF walk.kind = "hang" THEN walk
                      ELSE Outcome("error", <<>>, node.err, walk.errPath,
                                   walk.pathUpgrade)
             ELSE Reporter(mg, VisitNeighbors(Neighbors(node), 1, n, rest))


\* ------------------------------------------------------------ finalizer
\* sort.Slice(tail, less by Path), lines 225-228 and 313-315: insertion of
\* each element before the first element with a greater path.
InsertByPath(s, x) ==
    LET k == Cardinality({i \in 1 .. Len(s) : s[i].path <= x.path})
    IN  SubSeq(s, 1, k) \o <<x>> \o SubSeq(s, k + 1, Len(s))

RECURSIVE SortFrom(_, _, _)
SortFrom(s, i, acc) ==
    IF i > Len(s) THEN acc ELSE SortFrom(s, i + 1, InsertByPath(acc, s[i]))

\* The sort left out.
SortByPathSkipped(s) == s

SortByPath(s) == SortFrom(s, 1, <<>>)

\* for path, vers := range min, lines 207-210: the entries other than the
\* target's, in one of the orders a Go map may be ranged over (here from the
\* greatest path down).
RECURSIVE RangeMin(_, _)
RangeMin(mn, P) ==
    IF P = {} THEN <<>>
    ELSE LET p == CHOOSE x \in P : \A y \in P : y <= x
         IN  <<V(p, mn[p])>> \o RangeMin(mn, P \ {p})

\* Lines 212-222: some requirement of a selected version is not satisfied by
\* the selection.
Unsatisfied(mg, mn) ==
    \E p \in DOMAIN mn :
        LET required == mg[V(p, mn[p])].required
        IN  \E i \in 1 .. Len(required) :
                LET r == required[i]
                IN  /\ r.version # None
                    /\ r.path # RootPath
                    /\ Max(Lookup(mn, r.path, EmptyVer), r.version)
                           # Lookup(mn, r.path, EmptyVer)

\* Lines 196-229.
Finalize(mg, mn) ==
    IF Lookup(mn, RootPath, EmptyVer) # RootVer THEN Panic
    ELSE IF Unsatisfied(mg, mn) THEN Panic
    ELSE ListResult(<<Root>> \o SortByPath(RangeMin(mn, DOMAIN mn \ {RootPath})))

\* Lines 143-229 without the test of the has-error flag: the list is built
\* whatever happened.
AfterExploreNoReport(mg, mn, he) == Finalize(mg, mn)

\* Lines 143-229: what buildList does once work.Do has returned.
AfterExplore(mg, mn, he) ==
    LET rep == IF he # 0
               THEN Reporter(mg, [q |-> <<Root>>, neededBy |-> EmptyMap])
               ELSE NoResult
    IN  IF rep.kind # "none" THEN rep ELSE Finalize(mg, mn)

\* Lines 212-222 for a provider whose reqs.Max is implementation c.
UnsatisfiedBy(c, mg, mn) ==
    \E p \in DOMAIN mn :
        LET required == mg[V(p, mn[p])].required
        IN  \E i \in 1 .. Len(required) :
                LET r == required[i]
                IN  /\ r.version # None
                    /\ r.path # RootPath
                    /\ MaxBy(c, Lookup(mn, r.path, EmptyVer), r.version)
                           # Lookup(mn, r.path, EmptyVer)

\* Lines 196-229 without the test of lines 218-221: a requirement that the
\* selection does not satisfy goes unnoticed.
FinalizeByUnchecked(c, mg, mn) ==
    IF Lookup(mn, RootPath, EmptyVer) # RootVer THEN Panic
    ELSE ListResult(<<Root>> \o SortByPath(RangeMin(mn, DOMAIN mn \ {RootPath})))

\* Lines 196-229 for a provider whose reqs.Max is implementation c.
FinalizeBy(c, mg, mn) ==
    IF c = "contract" THEN Finalize(mg, mn)
    ELSE IF Lookup(mn, RootPath, EmptyVer) # RootVer THEN Panic
    ELSE IF UnsatisfiedBy(c, mg, mn) THEN Panic
    ELSE ListResult(<<Root>> \o SortByPath(RangeMin(mn, DOMAIN mn \ {RootPath})))

\* Lines 143-229 for a provider whose reqs.Max is implementation c.
AfterExploreBy(c, mg, mn, he) ==
    IF c = "contract" THEN AfterExplore(mg, mn, he)
    ELSE LET rep == IF he # 0
                    THEN Reporter(mg, [q |-> <<Root>>, neededBy |-> EmptyMap])
                    ELSE NoResult
         IN  IF rep.kind # "none" THEN rep ELSE FinalizeBy(c, mg, mn)

\* ------------------------------------------------------ provider calls
\* node.required = required, line 124.
SetRequired(mg, m, list) == [mg EXCEPT ![m].required = list]

\* node.upgrade = u, line 137.
SetUpgrade(mg, m, u) == [mg EXCEPT ![m].upgrade = u]

\* reqs.Required(m) as buildList calls it, line 119: what the provider R has
\* answered before, or any answer it may give; during Upgrade the override
\* (lines 476-481) answers for the target with its list ov.  A map-backed
\* provider has no requirements for a version it does not know.
RequiredCall(o, R, ov, m) ==
    IF o = "Upgrade" /\ m = Root THEN {Ok(ov)}
    ELSE IF m \notin DOMAIN R THEN {Ok(<<>>)}
    ELSE IF R[m].st # "unknown" THEN {R[m]}
    ELSE RequiredAnswers(m)

\* UpgradeAll's closure without the test of line 323: reqs.Upgrade is asked
\* about every vertex.
UpgradeAsksAlways(o, m) == o = "UpgradeAll"

\* Whether the upgrade function passes m on to reqs.Upgrade: UpgradeAll's
\* closure does, except for the target's path (lines 323-327); Upgrade's
\* closure never does.
UpgradeAsks(o, m) == o = "UpgradeAll" /\ m.path # RootPath

\* The upgrade function, line 131.  UpgradeAll's (lines 322-328) keeps the
\* target's path at the target and asks reqs.Upgrade otherwise; Upgrade's
\* (lines 357-362) reads upgradeTo.
UpgradeCall(o, U, to, m) ==
    IF o = "Upgrade" THEN {Ok(UpgradeToFn(to, m))}
    ELSE IF ~UpgradeAsks(o, m) THEN {Ok(Root)}
    ELSE IF m \notin DOMAIN U THEN {Ok(m)}
    ELSE IF U[m].st # "unknown" THEN {U[m]}
    ELSE UpgradeAnswers(m)

\* ------------------------------------------------------------- Upgrade
\* Lines 345-349: the extras whose path the target does not require are
\* appended at "none" (decided against the target's own list only).
RECURSIVE NoneEntries(_, _, _)
NoneEntries(ex, i, pathInList) ==
    IF i > Len(ex) THEN <<>>
    ELSE (IF ex[i].path \in pathInList THEN <<>> ELSE <<V(ex[i].path, None)>>)
         \o NoneEntries(ex, i + 1, pathInList)

\* Lines 350-354 without the duplicate test: the last extra of a path wins.
RECURSIVE UpgradeToMapLast(_, _, _)
UpgradeToMapLast(ex, i, to) ==
    IF i > Len(ex) THEN to
    ELSE UpgradeToMapLast(ex, i + 1, Put(to, ex[i].path, ex[i].version))

\* Lines 345-355: the upgradeTo map; duplicate paths resolve by reqs.Max.
RECURSIVE UpgradeToMap(_, _, _)
UpgradeToMap(ex, i, to) ==
    IF i > Len(ex) THEN to
    ELSE UpgradeToMap(ex, i + 1,
             IF ex[i].path \in DOMAIN to
             THEN Put(to, ex[i].path, Max(to[ex[i].path], ex[i].version))
             ELSE Put(to, ex[i].path, ex[i].version))

\* Downgrade has not been called.
NoDown == [pc |-> "idle"]

\* ------------------------------------------------------------- Init
Init ==
    /\ op \in Ops
    /\ base = <<>>
    /\ extras = <<>>
    /\ reqd = [v \in Vertices |-> Unknown]
    /\ upg = [v \in Vertices |-> Unknown]
    /\ ovList = <<>>
    /\ upgradeTo = EmptyMap
    /\ added = {}
    /\ todo = {}
    /\ pc = [w \in Workers |-> "idle"]
    /\ item = [w \in Workers |-> NoVersion]
    /\ mu = 0
    /\ modGraph = EmptyMap
    /\ min = EmptyMap
    /\ haveErr = 0
    /\ phase = "call"
    /\ result = NoResult
    /\ prev = [v \in Vertices |-> Unknown]
    /\ down = NoDown
    /\ maxImpl = "contract"
    /\ nextAdd = [w \in Workers |-> 0]

\* ------------------------------------------------------------- actions
\* BuildList, Req (line 236) and UpgradeAll enter buildList: work.Add(target),
\* line 104.
StartExplore ==
    /\ phase = "call"
    /\ op \in {"BuildList", "Req", "UpgradeAll"}
    /\ added' = {Root}
    /\ todo' = {Root}
    /\ phase' = "explore"
    /\ UNCHANGED <<op, base, extras, reqd, upg, ovList, upgradeTo, pc, item, mu,
                   modGraph, min, haveErr, result>>
    /\ UNCHANGED <<prev, down, maxImpl, nextAdd>>

\* Upgrade with the extras written over the target's requirements: a
\* requirement whose path has an entry in upgradeTo is replaced by that
\* entry in the override's list.
StartUpgradeReplaces ==
    /\ phase = "call"
    /\ op = "Upgrade"
    /\ \E ex \in SeqsUpTo(Vertices \ {Root}, MaxExtras), ans \in RequiredAnswers(Root) :
          /\ extras' = ex
          /\ reqd' = [reqd EXCEPT ![Root] = ans]
          /\ IF ans.st = "fail"
             THEN /\ result' = ErrorResult(ErrOf(Root, "required"))
                  /\ phase' = "done"
                  /\ UNCHANGED <<ovList, upgradeTo, added, todo>>
             ELSE LET pathInList == {x.path : x \in Range(ans.val)}
                      to == UpgradeToMap(ex, 1, EmptyMap)
                      list == [i \in 1 .. Len(ans.val) |-> UpgradeToFn(to, ans.val[i])]
                                  \o NoneEntries(ex, 1, pathInList)
                  IN  /\ Cardinality(Brought({Root} \cup Range(list), to)) <= MaxUpgradeNodes
                      /\ ovList' = list
                      /\ upgradeTo' = to
                      /\ added' = {Root}
                      /\ todo' = {Root}
                      /\ phase' = "explore"
                      /\ UNCHANGED result
    /\ UNCHANGED <<op, base, upg, pc, item, mu, modGraph, min, haveErr>>
    /\ UNCHANGED <<prev, down, maxImpl, nextAdd>>

\* Upgrade, lines 333-357, up to work.Add(target) in buildList.
StartUpgrade ==
    /\ phase = "call"
    /\ op = "Upgrade"
    /\ \E ex \in SeqsUpTo(Vertices \ {Root}, MaxExtras), ans \in RequiredAnswers(Root) :
          /\ extras' = ex
          /\ reqd' = [reqd EXCEPT ![Root] = ans]
          /\ IF ans.st = "fail"
             THEN /\ result' = ErrorResult(ErrOf(Root, "required"))
                  /\ phase' = "done"
                  /\ UNCHANGED <<ovList, upgradeTo, added, todo>>
             ELSE LET pathInList == {x.path : x \in Range(ans.val)}
                      list == ans.val \o NoneEntries(ex, 1, pathInList)
                      to == UpgradeToMap(ex, 1, EmptyMap)
                  IN  /\ Cardinality(Brought({Root} \cup Range(list), to)) <= MaxUpgradeNodes
                      /\ ovList' = list
                      /\ upgradeTo' = to
                      /\ added' = {Root}
                      /\ todo' = {Root}
                      /\ phase' = "explore"
                      /\ UNCHANGED result
    /\ UNCHANGED <<op, base, upg, pc, item, mu, modGraph, min, haveErr>>
    /\ UNCHANGED <<prev, down, maxImpl, nextAdd>>

\* par.Work.Do: an idle worker takes any item that is waiting.
Take(w) ==
    /\ phase = "explore"
    /\ pc[w] = "idle"
    /\ \E m \in todo :
          /\ todo' = todo \ {m}
          /\ item' = [item EXCEPT ![w] = m]
    /\ pc' = [pc EXCEPT ![w] = "lock"]
    /\ UNCHANGED <<op, base, extras, reqd, upg, ovList, upgradeTo, added, mu,
                   modGraph, min, haveErr, phase, result>>
    /\ UNCHANGED <<prev, down, maxImpl, nextAdd>>

\* Lines 108-115: mu.Lock(), register the node, fold the version into min.
Lock(w) ==
    /\ pc[w] = "lock"
    /\ mu = 0
    /\ mu' = w
    /\ modGraph' = Put(modGraph, item[w], NewNode(item[w]))
    /\ min' = MinUpdateBy(maxImpl, min, item[w])
    /\ pc' = [pc EXCEPT ![w] = "unlock"]
    /\ UNCHANGED <<op, base, extras, reqd, upg, ovList, upgradeTo, added, todo,
                   item, haveErr, phase, result>>
    /\ UNCHANGED <<prev, down, maxImpl, nextAdd>>

\* Where the function goes once the item is done with.
Return(w) ==
    /\ pc' = [pc EXCEPT ![w] = "idle"]
    /\ item' = [item EXCEPT ![w] = NoVersion]

\* Line 116, then the rest of the function under the test of line 118: an
\* item at "none" is done with once its node is registered, and the upgrade
\* function is not called for it.
UnlockNoneDone(w) ==
    /\ pc[w] = "unlock"
    /\ mu = w
    /\ mu' = 0
    /\ IF item[w].version # None
       THEN pc' = [pc EXCEPT ![w] = "required"] /\ UNCHANGED item
       ELSE Return(w)
    /\ UNCHANGED <<op, base, extras, reqd, upg, ovList, upgradeTo, added, todo,
                   modGraph, min, haveErr, phase, result>>
    /\ UNCHANGED <<prev, down, maxImpl, nextAdd>>

\* Line 118 and line 130 without the mu.Unlock() of line 116 before them.
UnlockLate(w) ==
    /\ pc[w] = "unlock"
    /\ mu = w
    /\ mu' = IF item[w].version # None \/ UpgradeMode(op) # "nil" THEN w ELSE 0
    /\ IF item[w].version # None
       THEN pc' = [pc EXCEPT ![w] = "required"] /\ UNCHANGED item
       ELSE IF UpgradeMode(op) # "nil"
            THEN pc' = [pc EXCEPT ![w] = "upgrade"] /\ UNCHANGED item
            ELSE Return(w)
    /\ UNCHANGED <<op, base, extras, reqd, upg, ovList, upgradeTo, added, todo,
                   modGraph, min, haveErr, phase, result>>
    /\ UNCHANGED <<prev, down, maxImpl, nextAdd>>

\* Line 116: mu.Unlock(); then line 118, line 130.
Unlock(w) ==
    /\ pc[w] = "unlock"
    /\ mu = w
    /\ mu' = 0
    /\ IF item[w].version # None
       THEN pc' = [pc EXCEPT ![w] = "required"] /\ UNCHANGED item
       ELSE IF UpgradeMode(op) # "nil"
            THEN pc' = [pc EXCEPT ![w] = "upgrade"] /\ UNCHANGED item
            ELSE Return(w)
    /\ UNCHANGED <<op, base, extras, reqd, upg, ovList, upgradeTo, added, todo,
                   modGraph, min, haveErr, phase, result>>
    /\ UNCHANGED <<prev, down, maxImpl, nextAdd>>

\* Line 130, reached from line 128: on to the upgrade function when there is
\* one, else the function returns.
AfterRequired(w) ==
    IF UpgradeMode(op) # "nil"
    THEN pc' = [pc EXCEPT ![w] = "upgrade"] /\ UNCHANGED item
    ELSE Return(w)

\* Line 124: node.required = required, stored without a lock before any
\* work.Add; then the loop of line 125 starts at the first entry.
StoreRequired(w, m, list) ==
    /\ WithinBudget(Range(list), upgradeTo)
    /\ modGraph' = SetRequired(modGraph, m, list)
    /\ UNCHANGED <<added, todo, haveErr>>
    /\ IF list # <<>>
       THEN /\ pc' = [pc EXCEPT ![w] = "add"]
            /\ nextAdd' = [nextAdd EXCEPT ![w] = 1]
            /\ UNCHANGED item
       ELSE /\ AfterRequired(w)
            /\ UNCHANGED nextAdd

\* par.Work.Add: items already added are ignored.
WorkAdd(S) ==
    /\ added' = added \cup S
    /\ todo' = todo \cup (S \ added)

\* Lines 118-128 with a failure that cuts the exploration short: the items
\* still waiting are dropped.
CallRequiredShortCircuit(w) ==
    /\ pc[w] = "required"
    /\ LET m == item[w]
       IN  \E ans \in RequiredCall(op, reqd, ovList, m) :
              /\ reqd' = IF op = "Upgrade" /\ m = Root THEN reqd
                         ELSE [reqd EXCEPT ![m] = ans]
              /\ IF ans.st = "fail"
                 THEN /\ modGraph' = SetErr(modGraph, m, ErrOf(m, "required"))
                      /\ haveErr' = 1
                      /\ Return(w)
                      /\ todo' = {}
                      /\ UNCHANGED added
                      /\ UNCHANGED nextAdd
                 ELSE StoreRequired(w, m, ans.val)
    /\ UNCHANGED <<op, base, extras, upg, ovList, upgradeTo, mu, min, phase, result>>
    /\ UNCHANGED <<prev, down, maxImpl>>

\* Lines 118-128 with a failed item put back in the queue to be tried again.
CallRequiredRetry(w) ==
    /\ pc[w] = "required"
    /\ LET m == item[w]
       IN  \E ans \in RequiredCall(op, reqd, ovList, m) :
              /\ reqd' = IF op = "Upgrade" /\ m = Root THEN reqd
                         ELSE [reqd EXCEPT ![m] = ans]
              /\ IF ans.st = "fail"
                 THEN /\ modGraph' = SetErr(modGraph, m, ErrOf(m, "required"))
                      /\ haveErr' = 1
                      /\ Return(w)
                      /\ todo' = todo \cup {m}
                      /\ UNCHANGED added
                      /\ UNCHANGED nextAdd
                 ELSE StoreRequired(w, m, ans.val)
    /\ UNCHANGED <<op, base, extras, upg, ovList, upgradeTo, mu, min, phase, result>>
    /\ UNCHANGED <<prev, down, maxImpl>>

\* Lines 118-128 without the return of line 122: after a failure of
\* reqs.Required the function goes on to the upgrade step.
CallRequiredGoesOn(w) ==
    /\ pc[w] = "required"
    /\ LET m == item[w]
       IN  \E ans \in RequiredCall(op, reqd, ovList, m) :
              /\ reqd' = IF op = "Upgrade" /\ m = Root THEN reqd
                         ELSE [reqd EXCEPT ![m] = ans]
              /\ IF ans.st = "fail"
                 THEN /\ modGraph' = SetErr(modGraph, m, ErrOf(m, "required"))
                      /\ haveErr' = 1
                      /\ UNCHANGED <<added, todo>>
                      /\ AfterRequired(w)
                      /\ UNCHANGED nextAdd
                 ELSE StoreRequired(w, m, ans.val)
    /\ UNCHANGED <<op, base, extras, upg, ovList, upgradeTo, mu, min, phase, result>>
    /\ UNCHANGED <<prev, down, maxImpl>>

\* Lines 118-128: reqs.Required(m) fails, or its list is stored and added.
CallRequired(w) ==
    /\ pc[w] = "required"
    /\ LET m == item[w]
       IN  \E ans \in RequiredCall(op, reqd, ovList, m) :
              /\ reqd' = IF op = "Upgrade" /\ m = Root THEN reqd
                         ELSE [reqd EXCEPT ![m] = ans]
              /\ IF ans.st = "fail"
                 THEN /\ modGraph' = SetErr(modGraph, m, ErrOf(m, "required"))
                      /\ haveErr' = 1
                      /\ Return(w)
                      /\ UNCHANGED <<added, todo, nextAdd>>
                 ELSE StoreRequired(w, m, ans.val)
    /\ UNCHANGED <<op, base, extras, upg, ovList, upgradeTo, mu, min, phase, result>>
    /\ UNCHANGED <<prev, down, maxImpl>>

\* Lines 125-127: one work.Add(r) of the loop over node.required.  Each call
\* is a critical section of par.Work of its own: between two of them the
\* other workers take what has been added.
AddRequired(w) ==
    /\ pc[w] = "add"
    /\ LET required == modGraph[item[w]].required
           i == nextAdd[w]
       IN  /\ WorkAdd({required[i]})
           /\ IF i < Len(required)
              THEN /\ nextAdd' = [nextAdd EXCEPT ![w] = i + 1]
                   /\ UNCHANGED <<pc, item>>
              ELSE /\ nextAdd' = [nextAdd EXCEPT ![w] = 0]
                   /\ AfterRequired(w)
    /\ UNCHANGED <<op, base, extras, reqd, upg, ovList, upgradeTo, mu, modGraph,
                   min, haveErr, phase, result>>
    /\ UNCHANGED <<prev, down, maxImpl>>

\* Lines 130-137: the upgrade function fails, or its result is stored when
\* it differs from m.
CallUpgrade(w) ==
    /\ pc[w] = "upgrade"
    /\ LET m == item[w]
       IN  \E ans \in UpgradeCall(op, upg, upgradeTo, m) :
              /\ upg' = IF UpgradeAsks(op, m) THEN [upg EXCEPT ![m] = ans]
                        ELSE upg
              /\ IF ans.st = "fail"
                 THEN /\ modGraph' = SetErr(modGraph, m, ErrOf(m, "upgrade"))
                      /\ haveErr' = 1
                      /\ Return(w)
                 ELSE IF ans.val # m
                 THEN /\ WithinBudget({ans.val}, upgradeTo)
                      /\ modGraph' = SetUpgrade(modGraph, m, ans.val)
                      /\ pc' = [pc EXCEPT ![w] = "addUpgrade"]
                      /\ UNCHANGED <<item, haveErr>>
                 ELSE /\ Return(w)
                      /\ UNCHANGED <<modGraph, haveErr>>
    /\ UNCHANGED <<op, base, extras, reqd, ovList, upgradeTo, added, todo, mu, min,
                   phase, result>>
    /\ UNCHANGED <<prev, down, maxImpl, nextAdd>>

\* Line 138: work.Add(u), after node.upgrade = u.
AddUpgrade(w) ==
    /\ pc[w] = "addUpgrade"
    /\ WorkAdd({modGraph[item[w]].upgrade})
    /\ Return(w)
    /\ UNCHANGED <<op, base, extras, reqd, upg, ovList, upgradeTo, mu, modGraph,
                   min, haveErr, phase, result>>
    /\ UNCHANGED <<prev, down, maxImpl, nextAdd>>

\* par.Work.Do returns as soon as nothing is waiting, whatever the workers
\* are doing.
RunReturnEarly ==
    /\ phase = "explore"
    /\ todo = {}
    /\ phase' = "explored"
    /\ UNCHANGED <<op, base, extras, reqd, upg, ovList, upgradeTo, added, todo, pc,
                   item, mu, modGraph, min, haveErr, result>>
    /\ UNCHANGED <<prev, down, maxImpl, nextAdd>>

\* par.Work.Do returns: nothing is waiting and no worker is running.
RunReturn ==
    /\ phase = "explore"
    /\ todo = {}
    /\ \A w \in Workers : pc[w] = "idle"
    /\ phase' = "explored"
    /\ UNCHANGED <<op, base, extras, reqd, upg, ovList, upgradeTo, added, todo, pc,
                   item, mu, modGraph, min, haveErr, result>>
    /\ UNCHANGED <<prev, down, maxImpl, nextAdd>>


\* ----------------------------------------------------------------- Req
\* The first walk of Req, lines 249-267: post-order over reqs.Required,
\* caching the lists.  R is the provider, st is [cache, post, err].
RECURSIVE Walk(_, _, _)
RECURSIVE WalkList(_, _, _, _)
Walk(R, m, st) ==
    IF m \in DOMAIN st.cache THEN st
    ELSE LET ans == R[m]
         IN  IF ans.st = "fail" THEN [st EXCEPT !.err = ErrOf(m, "required")]
             ELSE LET st1 == WalkList(R, ans.val, 1,
                                 [st EXCEPT !.cache = Put(st.cache, m, ans.val)])
                  IN  IF st1.err # NoErr THEN st1
                      ELSE [st1 EXCEPT !.post = Append(st1.post, m)]

WalkList(R, list, i, st) ==
    IF i > Len(list) \/ st.err # NoErr THEN st
    ELSE WalkList(R, list, i + 1, Walk(R, list[i], st))

\* Lines 245-272: the walk from every element of the build list;
\* reqCache[target] = nil keeps the target out of it.
Postorder(R, list) ==
    WalkList(R, list, 1,
             [cache |-> Put(EmptyMap, Root, <<>>), post |-> <<>>, err |-> NoErr])

\* The second walk, lines 275-285: mark m and all it reaches through the
\* cached lists.
RECURSIVE Mark(_, _, _)
RECURSIVE MarkList(_, _, _, _)
Mark(cache, m, have) ==
    IF m \in have THEN have
    ELSE MarkList(cache, Lookup(cache, m, <<>>), 1, have \cup {m})

MarkList(cache, list, i, have) ==
    IF i > Len(list) THEN have
    ELSE MarkList(cache, list, i + 1, Mark(cache, list[i], have))

\* Lines 286-293: max[path] over the build list.
RECURSIVE MaxOfList(_, _, _)
MaxOfList(list, i, mx) ==
    IF i > Len(list) THEN mx
    ELSE MaxOfList(list, i + 1,
             IF list[i].path \in DOMAIN mx
             THEN Put(mx, list[i].path, Max(list[i].version, mx[list[i].path]))
             ELSE Put(mx, list[i].path, list[i].version))

\* Lines 294-300 with a test of max[path]: a base path the build list does
\* not hold is passed over.
RECURSIVE TakeBaseIfListed(_, _, _, _, _)
TakeBaseIfListed(b, i, mx, cache, st) ==
    IF i > Len(b) THEN st
    ELSE IF b[i] \notin DOMAIN mx
         THEN TakeBaseIfListed(b, i + 1, mx, cache, st)
         ELSE LET m == V(b[i], mx[b[i]])
              IN  TakeBaseIfListed(b, i + 1, mx, cache,
                      [min |-> Append(st.min, m),
                       have |-> Mark(cache, m, st.have)])

\* Lines 294-300 without the walk(m) of line 299: the base modules are
\* listed and what they imply is not marked.
RECURSIVE TakeBaseUnmarked(_, _, _, _, _)
TakeBaseUnmarked(b, i, mx, cache, st) ==
    IF i > Len(b) THEN st
    ELSE LET m == V(b[i], Lookup(mx, b[i], EmptyVer))
         IN  TakeBaseUnmarked(b, i + 1, mx, cache,
                 [min |-> Append(st.min, m), have |-> st.have])

\* Lines 294-300: the base modules, listed whatever they are.
\* st is [min, have].
RECURSIVE TakeBase(_, _, _, _, _)
TakeBase(b, i, mx, cache, st) ==
    IF i > Len(b) THEN st
    ELSE LET m == V(b[i], Lookup(mx, b[i], EmptyVer))
         IN  TakeBase(b, i + 1, mx, cache,
                 [min |-> Append(st.min, m), have |-> Mark(cache, m, st.have)])

\* The loop of lines 302-312 without the have test: every selected version
\* is listed.
RECURSIVE TakeRestAll(_, _, _, _, _)
TakeRestAll(post, i, mx, cache, st) ==
    IF i < 1 THEN st
    ELSE LET m == post[i]
         IN  IF Lookup(mx, m.path, EmptyVer) # m.version
             THEN TakeRestAll(post, i - 1, mx, cache, st)
             ELSE TakeRestAll(post, i - 1, mx, cache,
                      [min |-> Append(st.min, m), have |-> Mark(cache, m, st.have)])

\* The loop of lines 302-312 with the have test inverted: what is implied
\* already is listed, what is not is left out.
RECURSIVE TakeRestInverted(_, _, _, _, _)
TakeRestInverted(post, i, mx, cache, st) ==
    IF i < 1 THEN st
    ELSE LET m == post[i]
         IN  IF Lookup(mx, m.path, EmptyVer) # m.version
             THEN TakeRestInverted(post, i - 1, mx, cache, st)
             ELSE IF m \in st.have
             THEN TakeRestInverted(post, i - 1, mx, cache,
                      [min |-> Append(st.min, m), have |-> Mark(cache, m, st.have)])
             ELSE TakeRestInverted(post, i - 1, mx, cache, st)

\* Lines 302-312: the reverse post-order brings in what is not implied yet.
RECURSIVE TakeRest(_, _, _, _, _)
TakeRest(post, i, mx, cache, st) ==
    IF i < 1 THEN st
    ELSE LET m == post[i]
         IN  IF Lookup(mx, m.path, EmptyVer) # m.version
             THEN TakeRest(post, i - 1, mx, cache, st)
             ELSE IF m \notin st.have
             THEN TakeRest(post, i - 1, mx, cache,
                      [min |-> Append(st.min, m), have |-> Mark(cache, m, st.have)])
             ELSE TakeRest(post, i - 1, mx, cache, st)

\* Req after the first walk w, lines 274-316.
ReqOf(w, list, b) ==
    IF w.err # NoErr
    THEN ErrorResult(w.err)
    ELSE LET mx == MaxOfList(list, 1, EmptyMap)
             st0 == TakeBase(b, 1, mx, w.cache, [min |-> <<>>, have |-> {}])
             st1 == TakeRest(w.post, Len(w.post), mx, w.cache, st0)
         IN  ListResult(SortByPath(st1.min))

\* The vertices the first walk w has asked reqs.Required about.
Asked(w) ==
    (DOMAIN w.cache \ {Root}) \cup (IF w.err # NoErr THEN {w.err.vertex} ELSE {})

\* The provider with the answers F gives for the vertices at "none": those in
\* F fail, the others have no requirements.
WithNone(R, F) ==
    [v \in Vertices |->
        IF v.version = None THEN (IF v \in F THEN Fail ELSE Ok(<<>>)) ELSE R[v]]

\* ---------------------------------------------------------------- return
\* buildList after work.Do, lines 143-229, and for Req the rest of Req.  The
\* base is drawn here, where Req first reads it (line 296); so are the
\* provider's answers for the vertices at "none" that Req's walk asks about
\* (buildList never asks about them, line 118).
Finish ==
    /\ phase = "explored"
    /\ LET r == AfterExploreBy(maxImpl, modGraph, min, haveErr)
       IN  IF r.kind = "hang"
           THEN /\ phase' = "hung"
                /\ UNCHANGED <<result, base, reqd>>
           ELSE IF op = "Req" /\ r.kind = "list"
           THEN \E F \in SUBSET {v \in added : v.version = None} :
                   LET R == WithNone(reqd, F)
                       w == Postorder(R, r.list)
                       asked == Asked(w)
                   IN  /\ reqd' = [v \in Vertices |->
                                      IF v \in asked THEN R[v] ELSE reqd[v]]
                       /\ \E b \in SeqsUpTo(Paths, MaxBase) :
                             /\ base' = b
                             /\ result' = ReqOf(w, r.list, b)
                       /\ phase' = "done"
           ELSE /\ result' = r
                /\ phase' = "done"
                /\ UNCHANGED <<base, reqd>>
    /\ UNCHANGED <<op, extras, upg, ovList, upgradeTo, added, todo, pc, item, mu,
                   modGraph, min, haveErr>>
    /\ UNCHANGED <<prev, down, maxImpl, nextAdd>>

Next ==
    \/ StartExplore
    \/ StartUpgrade
    \/ \E w \in Workers : Take(w)
    \/ \E w \in Workers : Lock(w)
    \/ \E w \in Workers : Unlock(w)
    \/ \E w \in Workers : CallRequired(w)
    \/ \E w \in Workers : AddRequired(w)
    \/ \E w \in Workers : CallUpgrade(w)
    \/ \E w \in Workers : AddUpgrade(w)
    \/ RunReturn
    \/ Finish

Spec == Init /\ [][Next]_vars

\* ------------------------------------------ buildList, one worker at a time
\* work.Add for each element of list, in order.  st is [mg, mn, he, q, added].
RECURSIVE AddItems(_, _, _)
AddItems(list, i, st) ==
    IF i > Len(list) THEN st
    ELSE AddItems(list, i + 1,
             IF list[i] \in st.added THEN st
             ELSE [st EXCEPT !.q = Append(st.q, list[i]),
                             !.added = st.added \cup {list[i]}])

\* The function passed to work.Do, lines 105-141, run to its end on item m
\* against a provider that has an answer for every vertex reached.
ProcessItem(o, R, ov, U, to, m, st) ==
    LET st0 == [st EXCEPT !.mg = Put(st.mg, m, NewNode(m)),
                          !.mn = MinUpdate(st.mn, m)]
        req == IF m.version # None
               THEN CHOOSE a \in RequiredCall(o, R, ov, m) : TRUE
               ELSE Ok(<<>>)
        up == IF UpgradeMode(o) # "nil"
              THEN CHOOSE a \in UpgradeCall(o, U, to, m) : TRUE
              ELSE Ok(m)
    IN  IF req.st = "fail"
        THEN [st0 EXCEPT !.mg = SetErr(st0.mg, m, ErrOf(m, "required")), !.he = 1]
        ELSE LET st1 == AddItems(req.val, 1,
                            [st0 EXCEPT !.mg = SetRequired(st0.mg, m, req.val)])
             IN  IF up.st = "fail"
                 THEN [st1 EXCEPT !.mg = SetErr(st1.mg, m, ErrOf(m, "upgrade")),
                                  !.he = 1]
                 ELSE IF up.val # m
                 THEN AddItems(<<up.val>>, 1,
                          [st1 EXCEPT !.mg = SetUpgrade(st1.mg, m, up.val)])
                 ELSE st1

\* work.Do with a single worker that takes the items in the order they were
\* added, lines 103-141.
RECURSIVE ExploreSeq(_, _, _, _, _, _)
ExploreSeq(o, R, ov, U, to, st) ==
    IF st.q = <<>> THEN st
    ELSE ExploreSeq(o, R, ov, U, to,
             ProcessItem(o, R, ov, U, to, Head(st.q), [st EXCEPT !.q = Tail(st.q)]))

\* buildList, lines 83-230, explored by a single worker.
BuildListSeq(o, R, ov, U, to) ==
    LET st == ExploreSeq(o, R, ov, U, to,
                  [mg |-> EmptyMap, mn |-> EmptyMap, he |-> 0,
                   q |-> <<Root>>, added |-> {Root}])
    IN  AfterExplore(st.mg, st.mn, st.he)

\* BuildList(target, reqs), lines 79-81, explored by a single worker.
BuildList(R) == BuildListSeq("BuildList", R, <<>>, EmptyMap, EmptyMap)

\* --------------------------------------------------- the requirement graph
\* The vertices m requires, as the explorer sees them: a vertex at "none" is
\* never asked (line 118), a failed vertex has none.
Succ(R, m) ==
    IF m \in DOMAIN R /\ m.version # None /\ R[m].st = "ok"
    THEN Range(R[m].val) ELSE {}

RECURSIVE ReachFrom(_, _, _)
ReachFrom(R, frontier, seen) ==
    IF frontier \subseteq seen THEN seen
    ELSE ReachFrom(R, UNION {Succ(R, m) : m \in frontier}, seen \cup frontier)

\* The subgraph reachable from the target.
Reachable(R) == ReachFrom(R, {Root}, {})

\* No reachable vertex requires itself, directly or not.
Acyclic(R) ==
    \A m \in Reachable(R) : m \notin ReachFrom(R, Succ(R, m), {})

\* Some provider call of the exploration failed.
AnyFailure ==
    \/ \E m \in DOMAIN modGraph : modGraph[m].err # NoErr
    \/ result.kind = "error"

\* The operation has returned.
Done == phase = "done"

\* The list buildList returned to the operation (Req goes on from it).
Returned == AfterExplore(modGraph, min, haveErr)


\* The provider as buildList sees it: during Upgrade the override answers for
\* the target.
Effective ==
    IF op = "Upgrade" /\ added # {} THEN [reqd EXCEPT ![Root] = Ok(ovList)]
    ELSE reqd

\* Some provider call has failed.
ProviderFailed ==
    \E m \in Vertices : reqd[m].st = "fail" \/ upg[m].st = "fail"

\* The versions of path p that edges of the reachable subgraph ask for.
EdgeVersions(R, p) ==
    {x.version : x \in {y \in UNION {Succ(R, m) : m \in Reachable(R)} :
                            y.path = p /\ y.version # None}}

\* The greatest element of a non-empty set of versions under reqs.Max.
MaxOfSet(S) == CHOOSE v \in S : \A w \in S : Max(v, w) = v

\* ===================================================================== C1
\* C1: on an acyclic requirement graph with no failing provider call,
\* BuildList returns a list, and every element of it other than the target
\* carries the Max of the versions that the edges of the subgraph reachable
\* from the target ask for on its path ("none" edges left out).
C1_SelectsMaxOverEdges ==
    (Done /\ op = "BuildList" /\ Acyclic(reqd) /\ ~ProviderFailed) =>
        /\ result.kind = "list"
        /\ \A i \in 2 .. Len(result.list) :
              LET x == result.list[i]
              IN  /\ EdgeVersions(reqd, x.path) # {}
                  /\ x.version = MaxOfSet(EdgeVersions(reqd, x.path))

\* A build list in which some path was asked for at two versions.
C1_Witness ==
    /\ Done /\ op = "BuildList" /\ Acyclic(reqd) /\ ~ProviderFailed
    /\ result.kind = "list"
    /\ \E i \in 2 .. Len(result.list) :
          Cardinality(EdgeVersions(reqd, result.list[i].path)) >= 2

\* ===================================================================== C2
\* The list buildList has returned (to BuildList, UpgradeAll and Upgrade it
\* is the operation's result; Req goes on from it).
BuildListReturned == IF op = "Req" THEN Returned ELSE result

\* C2: every list buildList returns starts with the target, the rest is in
\* strictly ascending order of path, and no path occurs twice (the target's
\* path included).
C2_RootFirstSortedUnique ==
    (Done /\ BuildListReturned.kind = "list") =>
        LET l == BuildListReturned.list
        IN  /\ Len(l) >= 1
            /\ l[1] = Root
            /\ \A i \in 2 .. Len(l) - 1 : l[i].path < l[i + 1].path
            /\ \A i, j \in 1 .. Len(l) : i # j => l[i].path # l[j].path

\* An upgraded list with paths on both sides of the target's.
C2_Witness ==
    /\ Done /\ op \in {"UpgradeAll", "Upgrade"}
    /\ result.kind = "list"
    /\ Len(result.list) = 3
    /\ result.list[2].path < RootPath
    /\ result.list[3].path > RootPath

\* ===================================================================== C3
\* C3: whatever the interleaving of the workers, buildList returns what a
\* single worker taking the items in the order they were added returns for
\* the same provider and upgrade function.
C3_SameForEveryInterleaving ==
    (phase \in {"explored", "done", "hung"} /\ added # {}) =>
        /\ Returned = BuildListSeq(op, reqd, ovList, upg, upgradeTo)
        /\ (Done /\ op # "Req") => result = Returned
        /\ (phase = "hung") => Returned.kind = "hang"

\* Two versions of one path have been explored, and the greater one was
\* selected.
C3_Witness ==
    /\ Done /\ result.kind = "list" /\ op # "Req"
    /\ \E m, n \in DOMAIN modGraph :
          /\ m.path = n.path /\ m.path # RootPath
          /\ None < m.version /\ m.version < n.version
          /\ min[m.path] = n.version


\* ===================================================================== C4
\* The call that failed on vertex m during the exploration, by the provider's
\* own answers: reqs.Required first, the upgrade function after it.
FailedCall(m) ==
    IF m.version # None /\ Effective[m].st = "fail" THEN "required"
    ELSE IF /\ UpgradeMode(op) # "nil"
            /\ \E a \in UpgradeCall(op, upg, upgradeTo, m) : a.st = "fail"
         THEN "upgrade"
         ELSE "nil"

\* b is required by a, or is a's upgrade target, by the provider's answers.
Edge(a, b) ==
    /\ FailedCall(a) = "nil"
    /\ \/ b \in Succ(Effective, a)
       \/ /\ UpgradeMode(op) # "nil"
          /\ b # a
          /\ Ok(b) \in UpgradeCall(op, upg, upgradeTo, a)

\* The number of edges on a shortest path from the frontier (d edges away
\* from the target) to a vertex on which a provider call failed; -1 if none.
RECURSIVE DistToFailure(_, _, _)
DistToFailure(frontier, seen, d) ==
    IF frontier = {} THEN 0 - 1
    ELSE IF \E f \in frontier : FailedCall(f) # "nil" THEN d
    ELSE DistToFailure(
             {b \in DOMAIN modGraph : \E a \in frontier : Edge(a, b)}
                 \ (seen \cup frontier),
             seen \cup frontier, d + 1)

\* C4, for the calls that return: when a provider call fails during the
\* exploration and buildList returns, it returns a build-list error whose errPath starts with the
\* target, follows required and upgrade edges, ends at a vertex on which a
\* provider call failed, wraps that call's error, and is as short as the
\* shortest path from the target to any failing vertex.
C4_ShortestErrorPath ==
    (Done /\ added # {} /\ \E m \in DOMAIN modGraph : FailedCall(m) # "nil") =>
        LET r == BuildListReturned
            path == r.errPath
            f == path[Len(path)]
        IN  /\ r.kind = "error"
            /\ Len(path) >= 1
            /\ path[1] = Root
            /\ FailedCall(f) # "nil"
            /\ r.err = ErrOf(f, FailedCall(f))
            /\ \A i \in 1 .. Len(path) - 1 : Edge(path[i], path[i + 1])
            /\ Len(path) - 1 <= DistToFailure({Root}, {}, 0)

\* Some call has failed on a vertex processed by the exploration.
ExplorationFailed == \E m \in DOMAIN modGraph : FailedCall(m) # "nil"

\* The workers have processed every item of the queue.
Explored == phase \in {"explored", "done", "hung"} /\ added # {}

\* C4, as stated: once the exploration is over and a provider call has
\* failed, what buildList produces is a build-list error with a shortest
\* errPath from the target to a failing vertex.
C4_ReturnsShortestErrorPath ==
    (Explored /\ ExplorationFailed) =>
        LET r == Returned
            path == r.errPath
            f == path[Len(path)]
        IN  /\ r.kind = "error"
            /\ Len(path) >= 1
            /\ path[1] = Root
            /\ FailedCall(f) # "nil"
            /\ r.err = ErrOf(f, FailedCall(f))
            /\ \A i \in 1 .. Len(path) - 1 : Edge(path[i], path[i + 1])
            /\ Len(path) - 1 <= DistToFailure({Root}, {}, 0)

\* Two vertices have failed, one of them two edges away from the target, the
\* other further away or to the side.
C4_Witness ==
    /\ Done /\ added # {}
    /\ BuildListReturned.kind = "error"
    /\ Len(BuildListReturned.errPath) = 3
    /\ Cardinality({m \in DOMAIN modGraph : FailedCall(m) # "nil"}) >= 2

\* ===================================================================== C5
\* C5, for the calls that return: an operation that returns after a provider
\* call has failed returns an error and no list; no operation returns a list
\* together with an error.
C5_NoPartialList ==
    Done =>
        /\ ProviderFailed => (result.kind = "error" /\ result.list = <<>>
                                  /\ result.err # NoErr)
        /\ ~(result.list # <<>> /\ result.err # NoErr)
        /\ result.kind = "list" => (result.err = NoErr /\ haveErr = 0)

\* C5, as stated: once the exploration is over and a provider call has
\* failed, buildList produces an error and no list, and so does the
\* operation built on it.
C5_FailureReturnsErrorAndNoList ==
    (Explored /\ ExplorationFailed) =>
        /\ Returned.kind = "error"
        /\ Returned.list = <<>>
        /\ Returned.err # NoErr
        /\ Done => (result.kind = "error" /\ result.list = <<>>)

\* The upgrade function has failed after other paths had been selected.
C5_Witness ==
    /\ Done /\ op = "UpgradeAll"
    /\ \E m \in Vertices : upg[m].st = "fail"
    /\ Cardinality(DOMAIN min) >= 2
    /\ result.kind = "error"


\* ===================================================================== C6
\* The paths of a list of versions.
PathsOf(list) == {x.path : x \in Range(list)}

\* Req has returned a list for an acyclic graph without provider failures.
ReqReturnedList ==
    /\ Done /\ op = "Req" /\ result.kind = "list"
    /\ Acyclic(reqd) /\ ~ProviderFailed

\* The provider that answers for the target with list and like R otherwise.
WithRootList(R, list) == [R EXCEPT ![Root] = Ok(list)]

\* BuildList on the graph in which the target requires list selects the same
\* version for every path as the build list of the original graph.
SameSelection(list) ==
    LET again == BuildList(WithRootList(reqd, list))
    IN  /\ again.kind = "list"
        /\ Range(again.list) = Range(Returned.list)

\* C6, as stated: for every base, BuildList on the graph in which the target
\* requires Req's output selects, for every path, the version the build list
\* of the original graph selects.
C6_ClosureForEveryBase == ReqReturnedList => SameSelection(result.list)

\* C6, amended: the same for every base whose paths all occur in the build
\* list.
C6_ClosureForBaseInBuildList ==
    (ReqReturnedList /\ Range(base) \subseteq PathsOf(Returned.list)) =>
        SameSelection(result.list)

\* Req has left out a vertex of the build list that another entry of its
\* output implies, with a base path next to it.
C6_Witness ==
    /\ ReqReturnedList
    /\ base # <<>>
    /\ Range(base) \subseteq PathsOf(Returned.list)
    /\ Len(Returned.list) = 3
    /\ Len(result.list) = 1
    /\ SameSelection(result.list)


\* ===================================================================== C7
\* The list without its i-th entry.
Without(list, i) == SubSeq(list, 1, i - 1) \o SubSeq(list, i + 1, Len(list))

\* The versions BuildList selects when the target requires list.
SelectionOf(list) == Range(BuildList(WithRootList(reqd, list)).list)

\* C7: on an acyclic graph, taking away any one entry of Req's output whose
\* path is not in base changes the build list computed from the entries.
C7_NoNonBaseEntryImplied ==
    ReqReturnedList =>
        \A i \in 1 .. Len(result.list) :
            result.list[i].path \notin Range(base) =>
                SelectionOf(Without(result.list, i)) # SelectionOf(result.list)

\* Req has listed one entry outside base; it implies the selected version
\* of another path, of which the target requires an older version.
C7_Witness ==
    /\ ReqReturnedList
    /\ base = <<>>
    /\ Cardinality(added) = 4
    /\ Len(Returned.list) = 3
    /\ Len(result.list) = 1
    /\ SelectionOf(<<>>) # SelectionOf(result.list)


\* ===================================================================== C8
\* C8: every path of base is the path of some entry of the list Req returns,
\* be it implied by another entry or absent from the build list.
C8_BasePathsListed ==
    (Done /\ op = "Req" /\ result.kind = "list") =>
        Range(base) \subseteq PathsOf(result.list)

\* Req has returned a list for a base with a path the build list does not
\* hold, and a path whose selected version another entry requires.
C8_Witness ==
    /\ Done /\ op = "Req" /\ result.kind = "list"
    /\ \E p \in Range(base) : p \notin PathsOf(Returned.list)
    /\ \E x, y \in Range(result.list) :
          /\ x.path \in Range(base)
          /\ y # x
          /\ x \in Succ(reqd, y)
    /\ Range(base) \subseteq PathsOf(result.list)


\* ===================================================================== C9
\* base lists every path of the build list once and nothing else.
BaseIsAllPaths ==
    /\ Range(base) = PathsOf(Returned.list)
    /\ Len(base) = Cardinality(Range(base))

\* C9: when base is the set of the paths of the build list, Req returns the
\* elements of the build list, each once, in some order.
C9_ReqOfAllPathsIsBuildList ==
    (Done /\ op = "Req" /\ result.kind = "list" /\ BaseIsAllPaths) =>
        /\ Range(result.list) = Range(Returned.list)
        /\ Len(result.list) = Len(Returned.list)

\* The build list has three elements, one of them required by another, and
\* base names their three paths.
C9_Witness ==
    /\ Done /\ op = "Req" /\ result.kind = "list" /\ BaseIsAllPaths
    /\ Len(Returned.list) = 3
    /\ \E x, y \in Range(Returned.list) : x # Root /\ y # Root /\ x \in Succ(reqd, y)
    /\ Range(result.list) = Range(Returned.list)


\* ==================================================================== C10
\* C10: BuildList on the provider that answers for the target with the tail
\* of the build list, and like the original otherwise, returns the build
\* list again.
C10_BuildListIdempotent ==
    (Done /\ op = "BuildList" /\ result.kind = "list") =>
        BuildList(WithRootList(reqd, Tail(result.list))) = result

\* The build list holds a version the target does not require itself, in
\* place of an older one it does require.
C10_Witness ==
    /\ Done /\ op = "BuildList" /\ result.kind = "list"
    /\ Len(result.list) = 3
    /\ \E x \in Range(reqd[Root].val) :
          \E y \in Range(result.list) : y.path = x.path /\ y.version > x.version
    /\ BuildList(WithRootList(reqd, Tail(result.list))) = result


\* ==================================================================== C11
\* C11: UpgradeAll never asks reqs.Upgrade about a vertex of the target's
\* path; such a vertex is upgraded to the target, the target to nothing; the
\* target's path stays selected at the target's version, and the list
\* UpgradeAll returns starts with the target.
C11_RootNeverUpgraded ==
    op = "UpgradeAll" =>
        /\ \A m \in Vertices : m.path = RootPath => upg[m] = Unknown
        /\ \A m \in DOMAIN modGraph :
              m.path = RootPath =>
                  /\ modGraph[m].upgrade \in {NoVersion, Root}
                  /\ modGraph[m].err.call # "upgrade"
        /\ Root \in DOMAIN modGraph => modGraph[Root].upgrade = NoVersion
        /\ RootPath \in DOMAIN min => min[RootPath] = RootVer
        /\ (Done /\ result.kind = "list") => result.list[1] = Root

\* UpgradeAll has returned a list after exploring another version of the
\* target's path and asking reqs.Upgrade about another module.
C11_Witness ==
    /\ Done /\ op = "UpgradeAll" /\ result.kind = "list"
    /\ \E m \in DOMAIN modGraph :
          m.path = RootPath /\ m # Root /\ modGraph[m].upgrade = Root
    /\ \E m \in Vertices : upg[m].st = "ok"
    /\ result.list[1] = Root


\* ==================================================================== C12
\* The list selects u's path at a version not lower than u's.
Satisfies(list, u) ==
    \E x \in Range(list) : x.path = u.path /\ Max(x.version, u.version) = x.version

\* UpgradeAll has returned a list.
UpgradeAllReturnedList == Done /\ op = "UpgradeAll" /\ result.kind = "list"

\* C12: when UpgradeAll returns a list, reqs.Upgrade has answered for every
\* explored vertex m off the target's path, and the list selects the path of
\* the answer at the answer's version or above; so it does for the answer
\* about the version BuildList selects for a path of the list.
C12_UpgradesSatisfied ==
    UpgradeAllReturnedList =>
        /\ \A m \in DOMAIN modGraph :
              m.path # RootPath =>
                  /\ upg[m].st = "ok"
                  /\ upg[m].val.version # None => Satisfies(result.list, upg[m].val)
        /\ LET before == BuildList(reqd)
           IN  /\ before.kind = "list"
               /\ \A x \in Range(before.list) :
                     (x.path # RootPath /\ x.path \in PathsOf(result.list)) =>
                         /\ x \in DOMAIN modGraph
                         /\ Satisfies(result.list, upg[x].val)

\* BuildList selects a version that reqs.Upgrade replaces by a later one,
\* which UpgradeAll selects.
C12_Witness ==
    /\ UpgradeAllReturnedList
    /\ \E x \in Range(BuildList(reqd).list) :
          /\ x.path # RootPath
          /\ upg[x].st = "ok"
          /\ upg[x].val.version > x.version
          /\ upg[x].val \in Range(result.list)


\* ==================================================================== C13
\* Upgrade has returned a list.
UpgradeReturnedList == Done /\ op = "Upgrade" /\ result.kind = "list"

\* The versions other than "none" that the extras name for path p.
ExtraVersions(p) ==
    {x.version : x \in {y \in Range(extras) : y.path = p /\ y.version # None}}

\* C13: the list Upgrade returns selects the path of every extra that is not
\* at "none", at a version not lower than the extra's, and not lower than the
\* Max of the extras of that path.
C13_ExtrasSatisfied ==
    UpgradeReturnedList =>
        /\ \A i \in 1 .. Len(extras) :
              extras[i].version # None => Satisfies(result.list, extras[i])
        /\ \A p \in Paths :
              ExtraVersions(p) # {} =>
                  Satisfies(result.list, V(p, MaxOfSet(ExtraVersions(p))))

\* Two extras name a path the target does not require, the later one at the
\* lower version; the list selects the higher.
C13_Witness ==
    /\ UpgradeReturnedList
    /\ Len(extras) = 2
    /\ extras[1].path = extras[2].path
    /\ extras[1].version > extras[2].version
    /\ extras[2].version # None
    /\ extras[1].path \notin PathsOf(reqd[Root].val)
    /\ extras[1] \in Range(result.list)


\* ============================================================== Downgrade
\* The vertices Downgrade's provider answers may bring up, the target
\* included, and the number of versions Downgrade may be asked to lower.
MaxDownNodes == 5
MaxTargets == 2

\* The released versions Downgrade's provider knows of, and the target.
DownVertices ==
    {V(p, v) : p \in Paths \ {RootPath}, v \in 1 .. MaxVer} \cup {Root}

\* The versions Downgrade may be asked to go down to: a released version or
\* "none" of a path other than the target's.
DownTargets == {V(p, v) : p \in Paths \ {RootPath}, v \in None .. MaxVer}

\* What reqs.Required(m) may return during Downgrade: a list of released
\* versions, or an error.
DownRequiredAnswers(m) ==
    {Ok(s) : s \in {t \in ReqLists(m) : Range(t) \subseteq DownVertices}} \cup {Fail}

\* reqs.Required(m) as Downgrade calls it, lines 373 and 412: what the
\* provider has answered before, or any answer it may give.
DownRequiredCall(R, m) ==
    IF m \notin DOMAIN R THEN {Ok(<<>>)}
    ELSE IF R[m].st # "unknown" THEN {R[m]}
    ELSE DownRequiredAnswers(m)

\* What reqs.Previous(m) may return: an earlier version of the same path,
\* "none" when there is none, or an error.
PreviousAnswers(m) ==
    {Ok(V(m.path, v)) : v \in {x \in 1 .. MaxVer : x < m.version} \cup {None}}
        \cup {Fail}

\* Lines 377-380: max[r.Path] = r.Version over the target's requirements.
RECURSIVE MaxOfRequired(_, _, _)
MaxOfRequired(list, i, mx) ==
    IF i > Len(list) THEN mx
    ELSE MaxOfRequired(list, i + 1, Put(mx, list[i].path, list[i].version))

\* Lines 381-385 with the test cut down to !ok: a version to downgrade to
\* sets the cap of a path only when the target does not require the path.
RECURSIVE MaxOfDowngradeIfAbsent(_, _, _)
MaxOfDowngradeIfAbsent(dl, i, mx) ==
    IF i > Len(dl) THEN mx
    ELSE MaxOfDowngradeIfAbsent(dl, i + 1,
             IF dl[i].path \notin DOMAIN mx
             THEN Put(mx, dl[i].path, dl[i].version)
             ELSE mx)

\* Lines 381-385 without the test: each version to downgrade to becomes the
\* cap of its path, the last one of a path winning.
RECURSIVE MaxOfDowngradeOverwrite(_, _, _)
MaxOfDowngradeOverwrite(dl, i, mx) ==
    IF i > Len(dl) THEN mx
    ELSE MaxOfDowngradeOverwrite(dl, i + 1, Put(mx, dl[i].path, dl[i].version))

\* Lines 381-385: a version to downgrade to lowers the cap of its path, and
\* sets it when the path has none.
RECURSIVE MaxOfDowngrade(_, _, _)
MaxOfDowngrade(dl, i, mx) ==
    IF i > Len(dl) THEN mx
    ELSE MaxOfDowngrade(dl, i + 1,
             IF dl[i].path \notin DOMAIN mx
                    \/ Max(mx[dl[i].path], dl[i].version) # dl[i].version
             THEN Put(mx, dl[i].path, dl[i].version)
             ELSE mx)

\* exclude, lines 392-401: m and, through rdeps, all that requires it.
RECURSIVE Exclude(_, _, _)
RECURSIVE ExcludeAll(_, _, _)
Exclude(excluded, rdeps, m) ==
    IF m \in excluded THEN excluded
    ELSE ExcludeAll(excluded \cup {m}, rdeps, Lookup(rdeps, m, {}))

ExcludeAll(excluded, rdeps, S) ==
    IF S = {} THEN excluded
    ELSE LET q == CHOOSE x \in S : TRUE
         IN  ExcludeAll(Exclude(excluded, rdeps, q), rdeps, S \ {q})

\* Line 408: m is above the cap of its path.
AboveMax(mx, m) == m.path \in DOMAIN mx /\ Max(m.version, mx[m.path]) # mx[m.path]

\* Lines 373-434 and 436-437: Downgrade up to the loop over the target's
\* requirements, list being what reqs.Required(target) has returned.
StartDown(dl, list) ==
    [pc |-> "list",
     downgrade |-> dl,
     list |-> list,
     max |-> MaxOfDowngrade(dl, 1, MaxOfRequired(list, 1, EmptyMap)),
     added |-> {},
     rdeps |-> EmptyMap,
     excluded |-> {},
     out |-> <<Root>>,
     i |-> 1,
     r |-> NoVersion,
     callee |-> NoVersion,
     stack |-> <<>>]

\* Lines 439-440: the next requirement r of the target, and add(r).
OnListNext(d) ==
    [d EXCEPT !.r = d.list[d.i], !.callee = d.list[d.i], !.pc = "call"]

\* Whether add(m) gets as far as reqs.Required(m), lines 404-412.
AddAsks(d, m) == m \notin d.added /\ ~AboveMax(d.max, m)

\* add(d.callee) with an error of reqs.Required handed on to the caller:
\* Downgrade ends with that error.
OnAddFailing(d, ans) ==
    LET m == d.callee
    IN  IF m \in d.added THEN [d EXCEPT !.pc = "ret"]
        ELSE IF AboveMax(d.max, m)
        THEN [d EXCEPT !.added = d.added \cup {m},
                       !.excluded = Exclude(d.excluded, d.rdeps, m),
                       !.pc = "ret"]
        ELSE IF ans.st = "fail"
        THEN [d EXCEPT !.added = d.added \cup {m}, !.pc = "error"]
        ELSE [d EXCEPT !.added = d.added \cup {m},
                       !.stack = Append(d.stack, [m |-> m, list |-> ans.val, i |-> 1]),
                       !.pc = "loop"]

\* add(d.callee) without the mark of line 407 for a version above its cap:
\* the version is excluded and not marked added.
OnAddUnmarked(d, ans) ==
    LET m == d.callee
    IN  IF m \in d.added THEN [d EXCEPT !.pc = "ret"]
        ELSE IF AboveMax(d.max, m)
        THEN [d EXCEPT !.excluded = Exclude(d.excluded, d.rdeps, m),
                       !.pc = "ret"]
        ELSE IF ans.st = "fail"
        THEN [d EXCEPT !.added = d.added \cup {m},
                       !.excluded = Exclude(d.excluded, d.rdeps, m),
                       !.pc = "ret"]
        ELSE [d EXCEPT !.added = d.added \cup {m},
                       !.stack = Append(d.stack, [m |-> m, list |-> ans.val, i |-> 1]),
                       !.pc = "loop"]

\* add(d.callee), lines 403-426, up to its loop over the requirements; ans is
\* what reqs.Required returns when it is called.
OnAdd(d, ans) ==
    LET m == d.callee
    IN  IF m \in d.added THEN [d EXCEPT !.pc = "ret"]
        ELSE IF AboveMax(d.max, m)
        THEN [d EXCEPT !.added = d.added \cup {m},
                       !.excluded = Exclude(d.excluded, d.rdeps, m),
                       !.pc = "ret"]
        ELSE IF ans.st = "fail"
        THEN [d EXCEPT !.added = d.added \cup {m},
                       !.excluded = Exclude(d.excluded, d.rdeps, m),
                       !.pc = "ret"]
        ELSE [d EXCEPT !.added = d.added \cup {m},
                       !.stack = Append(d.stack, [m |-> m, list |-> ans.val, i |-> 1]),
                       !.pc = "loop"]

\* Line 427: the loop of add over the requirements of m; add(r) for the
\* next one, or the end of add(m).
OnLoop(d) ==
    LET n == Len(d.stack)
        top == d.stack[n]
    IN  IF top.i > Len(top.list)
        THEN [d EXCEPT !.stack = SubSeq(d.stack, 1, n - 1),
                       !.callee = top.m, !.pc = "ret"]
        ELSE [d EXCEPT !.callee = top.list[top.i], !.pc = "call"]

\* Lines 428-433 without the test of excluded[r]: m becomes a reverse
\* dependency of r and goes on.
OnRetNoCheck(d) ==
    IF d.stack = <<>> THEN [d EXCEPT !.pc = "while"]
    ELSE LET n == Len(d.stack)
             top == d.stack[n]
             r == top.list[top.i]
         IN  [d EXCEPT !.rdeps = Put(d.rdeps, r, Lookup(d.rdeps, r, {}) \cup {top.m}),
                       !.stack[n].i = top.i + 1,
                       !.pc = "loop"]

\* add(r) has returned.  Inside add(m), lines 429-433: m is excluded with r,
\* or becomes a reverse dependency of r.  In Downgrade: on to line 441.
OnRet(d) ==
    IF d.stack = <<>> THEN [d EXCEPT !.pc = "while"]
    ELSE LET n == Len(d.stack)
             top == d.stack[n]
             r == top.list[top.i]
         IN  IF r \in d.excluded
             THEN [d EXCEPT !.excluded = Exclude(d.excluded, d.rdeps, top.m),
                            !.stack = SubSeq(d.stack, 1, n - 1),
                            !.callee = top.m, !.pc = "ret"]
             ELSE [d EXCEPT !.rdeps = Put(d.rdeps, r, Lookup(d.rdeps, r, {}) \cup {top.m}),
                            !.stack[n].i = top.i + 1,
                            !.pc = "loop"]

\* Lines 455-457 without the first half of the test: whatever
\* reqs.Previous returns below the cap is replaced by the cap, also when r
\* is the cap already.
ClampAlways(mx, r, p) ==
    LET v == Lookup(mx, r.path, EmptyVer)
    IN  IF Max(p.version, v) # p.version THEN V(p.path, v) ELSE p

\* Lines 441-463 without lines 455-457: the walk goes where reqs.Previous
\* leads.
ClampNever(mx, r, p) == p

\* Lines 455-457: the version to downgrade to, put into the walk over
\* reqs.Previous when the walk would step over it.
Clamp(mx, r, p) ==
    LET v == Lookup(mx, r.path, EmptyVer)
    IN  IF Max(v, r.version) # v /\ Max(p.version, v) # p.version
        THEN V(p.path, v) ELSE p

\* Lines 441-464 without the continue of lines 458-460: a requirement that
\* has come down to "none" is listed at "none".
OnWhileKeepNone(d, ans) ==
    IF d.r \notin d.excluded
    THEN [d EXCEPT !.out = Append(d.out, d.r), !.i = d.i + 1, !.pc = "list"]
    ELSE IF ans.st = "fail" THEN [d EXCEPT !.pc = "error"]
    ELSE LET p == Clamp(d.max, d.r, ans.val)
         IN  IF p.version = None
             THEN [d EXCEPT !.out = Append(d.out, p), !.i = d.i + 1, !.pc = "list"]
             ELSE [d EXCEPT !.callee = p, !.r = p, !.pc = "call"]

\* Lines 441-464: r is kept, or replaced by what reqs.Previous(r) returned
\* (ans), or dropped at "none"; an error of reqs.Previous ends Downgrade.
OnWhile(d, ans) ==
    IF d.r \notin d.excluded
    THEN [d EXCEPT !.out = Append(d.out, d.r), !.i = d.i + 1, !.pc = "list"]
    ELSE IF ans.st = "fail" THEN [d EXCEPT !.pc = "error"]
    ELSE LET p == Clamp(d.max, d.r, ans.val)
         IN  IF p.version = None
             THEN [d EXCEPT !.i = d.i + 1, !.pc = "list"]
             ELSE [d EXCEPT !.callee = p, !.r = p, !.pc = "call"]


\* The vertices the provider's answers have brought up so far.
Mentioned(R, P) ==
    {Root} \cup {v \in Vertices : R[v].st # "unknown"}
           \cup UNION {Range(R[v].val) : v \in Vertices}
           \cup {P[v].val : v \in {x \in Vertices : P[x].st = "ok"
                                                     /\ P[x].val.version # None}}

\* An answer stays within MaxDownNodes vertices, or brings up none.
WithinDownBudget(S) ==
    \/ S \subseteq Mentioned(reqd, prev)
    \/ Cardinality(Mentioned(reqd, prev) \cup S) <= MaxDownNodes

\* reqs.Previous(m) as Downgrade calls it, line 442: what the provider has
\* answered before, or any answer it may give.
PreviousCall(P, m) ==
    IF m \notin DOMAIN P THEN {Ok(V(m.path, None))}
    ELSE IF P[m].st # "unknown" THEN {P[m]}
    ELSE PreviousAnswers(m)

\* What buildList and its callers work on stays as it is during Downgrade.
bvars == <<base, extras, upg, ovList, upgradeTo, added, todo, pc, item, mu,
           modGraph, min, haveErr, maxImpl, nextAdd>>

InitDown ==
    /\ op = "Downgrade"
    /\ base = <<>>
    /\ extras = <<>>
    /\ reqd = [v \in Vertices |-> Unknown]
    /\ upg = [v \in Vertices |-> Unknown]
    /\ ovList = <<>>
    /\ upgradeTo = EmptyMap
    /\ added = {}
    /\ todo = {}
    /\ pc = [w \in Workers |-> "idle"]
    /\ item = [w \in Workers |-> NoVersion]
    /\ mu = 0
    /\ modGraph = EmptyMap
    /\ min = EmptyMap
    /\ haveErr = 0
    /\ phase = "call"
    /\ result = NoResult
    /\ prev = [v \in Vertices |-> Unknown]
    /\ down = NoDown
    /\ maxImpl = "contract"
    /\ nextAdd = [w \in Workers |-> 0]

\* Downgrade, lines 372-437: reqs.Required(target) fails, or the caps and
\* the empty maps are set up.
DowngradeCall ==
    /\ phase = "call"
    /\ op = "Downgrade"
    /\ \E dl \in SeqsUpTo(DownTargets, MaxTargets), ans \in DownRequiredAnswers(Root) :
          /\ reqd' = [reqd EXCEPT ![Root] = ans]
          /\ IF ans.st = "fail"
             THEN /\ result' = ErrorResult(ErrOf(Root, "required"))
                  /\ phase' = "done"
                  /\ down' = [pc |-> "error"]
             ELSE /\ Cardinality({Root} \cup Range(ans.val)) <= MaxDownNodes
                  /\ down' = StartDown(dl, ans.val)
                  /\ phase' = "down"
                  /\ UNCHANGED result
    /\ UNCHANGED <<op, prev, bvars>>

\* Lines 439-440: for _, r := range list { add(r) ...
DownListNext ==
    /\ phase = "down"
    /\ down.pc = "list"
    /\ down.i <= Len(down.list)
    /\ down' = OnListNext(down)
    /\ UNCHANGED <<op, reqd, prev, phase, result, bvars>>

\* Line 467: return out, nil.
DownReturn ==
    /\ phase = "down"
    /\ down.pc = "list"
    /\ down.i > Len(down.list)
    /\ down' = [down EXCEPT !.pc = "done"]
    /\ result' = ListResult(down.out)
    /\ phase' = "done"
    /\ UNCHANGED <<op, reqd, prev, bvars>>

\* add(m), lines 403-426.
DownAdd ==
    /\ phase = "down"
    /\ down.pc = "call"
    /\ IF AddAsks(down, down.callee)
       THEN \E ans \in DownRequiredCall(reqd, down.callee) :
               /\ WithinDownBudget(Range(ans.val))
               /\ reqd' = [reqd EXCEPT ![down.callee] = ans]
               /\ down' = OnAdd(down, ans)
       ELSE /\ down' = OnAdd(down, Unknown)
            /\ UNCHANGED reqd
    /\ UNCHANGED <<op, prev, phase, result, bvars>>

\* add(m), line 427.
DownAddLoop ==
    /\ phase = "down"
    /\ down.pc = "loop"
    /\ down' = OnLoop(down)
    /\ UNCHANGED <<op, reqd, prev, phase, result, bvars>>

\* add(m), lines 428-433, and the return of add(r) to Downgrade.
DownAddRet ==
    /\ phase = "down"
    /\ down.pc = "ret"
    /\ down' = OnRet(down)
    /\ UNCHANGED <<op, reqd, prev, phase, result, bvars>>

\* Lines 441-465 with `return out, err` at line 449: the error of
\* reqs.Previous comes with the list built so far.
DownWhilePartial ==
    /\ phase = "down"
    /\ down.pc = "while"
    /\ IF down.r \in down.excluded
       THEN \E ans \in PreviousCall(prev, down.r) :
               /\ ans.st = "ok" => WithinDownBudget({ans.val} \ {V(down.r.path, None)})
               /\ prev' = [prev EXCEPT ![down.r] = ans]
               /\ down' = OnWhile(down, ans)
               /\ IF ans.st = "fail"
                  THEN /\ result' = [ErrorResult(ErrOf(down.r, "previous"))
                                        EXCEPT !.list = down.out]
                       /\ phase' = "done"
                  ELSE UNCHANGED <<result, phase>>
       ELSE /\ down' = OnWhile(down, Unknown)
            /\ UNCHANGED <<prev, result, phase>>
    /\ UNCHANGED <<op, reqd, bvars>>

\* Lines 441-465: for excluded[r] { p, err := reqs.Previous(r) ... }, and
\* out = append(out, r).
DownWhile ==
    /\ phase = "down"
    /\ down.pc = "while"
    /\ IF down.r \in down.excluded
       THEN \E ans \in PreviousCall(prev, down.r) :
               /\ ans.st = "ok" => WithinDownBudget({ans.val} \ {V(down.r.path, None)})
               /\ prev' = [prev EXCEPT ![down.r] = ans]
               /\ down' = OnWhile(down, ans)
               /\ IF ans.st = "fail"
                  THEN /\ result' = ErrorResult(ErrOf(down.r, "previous"))
                       /\ phase' = "done"
                  ELSE UNCHANGED <<result, phase>>
       ELSE /\ down' = OnWhile(down, Unknown)
            /\ UNCHANGED <<prev, result, phase>>
    /\ UNCHANGED <<op, reqd, bvars>>

NextDown ==
    \/ DowngradeCall
    \/ DownListNext
    \/ DownReturn
    \/ DownAdd
    \/ DownAddLoop
    \/ DownAddRet
    \/ DownWhile

SpecDowngrade == InitDown /\ [][NextDown]_vars


\* ==================================================================== C14
\* Downgrade has returned a list.
DowngradeReturnedList == Done /\ op = "Downgrade" /\ result.kind = "list"

\* The build list of the target with the tail of Downgrade's output as its
\* requirements.
DowngradedBuildList == BuildList(WithRootList(reqd, Tail(result.list)))

\* C14: in the build list computed from the tail of Downgrade's output, no
\* path of a version to downgrade to is selected above that version.
C14_SelectedAtOrBelowTarget ==
    DowngradeReturnedList =>
        /\ DowngradedBuildList.kind = "list"
        /\ \A k \in 1 .. Len(down.downgrade) :
              \A x \in Range(DowngradedBuildList.list) :
                  x.path = down.downgrade[k].path =>
                      Max(x.version, down.downgrade[k].version)
                          = down.downgrade[k].version

\* A version above the one to downgrade to has been excluded and the path is
\* still selected, through an entry that Downgrade has lowered.
C14_Witness ==
    /\ DowngradeReturnedList
    /\ \E k \in 1 .. Len(down.downgrade) :
          /\ down.downgrade[k].path \in PathsOf(DowngradedBuildList.list)
          /\ down.downgrade[k].path \notin PathsOf(result.list)
          /\ \E m \in down.excluded : m.path = down.downgrade[k].path
    /\ \E x \in Range(result.list) : x \notin Range(reqd[Root].val) \cup {Root}


\* ==================================================================== C15
\* A step of Downgrade that sorts the tail of out by path before line 467,
\* as buildList sorts its list.
DownStepSorted(d, R, P) ==
    CASE d.pc = "list" ->
             IF d.i > Len(d.list)
             THEN [d EXCEPT !.out = <<Root>> \o SortByPath(Tail(d.out)), !.pc = "done"]
             ELSE OnListNext(d)
      [] d.pc = "call" ->
             OnAdd(d, IF AddAsks(d, d.callee)
                      THEN CHOOSE a \in DownRequiredCall(R, d.callee) : TRUE
                      ELSE Unknown)
      [] d.pc = "loop" -> OnLoop(d)
      [] d.pc = "ret" -> OnRet(d)
      [] d.pc = "while" ->
             OnWhile(d, IF d.r \in d.excluded
                        THEN CHOOSE a \in PreviousCall(P, d.r) : TRUE
                        ELSE Unknown)

\* One step of Downgrade against a provider that has an answer for every
\* vertex asked about: R for reqs.Required, P for reqs.Previous.
DownStep(d, R, P) ==
    CASE d.pc = "list" ->
             IF d.i > Len(d.list) THEN [d EXCEPT !.pc = "done"] ELSE OnListNext(d)
      [] d.pc = "call" ->
             OnAdd(d, IF AddAsks(d, d.callee)
                      THEN CHOOSE a \in DownRequiredCall(R, d.callee) : TRUE
                      ELSE Unknown)
      [] d.pc = "loop" -> OnLoop(d)
      [] d.pc = "ret" -> OnRet(d)
      [] d.pc = "while" ->
             OnWhile(d, IF d.r \in d.excluded
                        THEN CHOOSE a \in PreviousCall(P, d.r) : TRUE
                        ELSE Unknown)

RECURSIVE DownRun(_, _, _)
DownRun(d, R, P) ==
    IF d.pc = "done" THEN ListResult(d.out)
    ELSE IF d.pc = "error" THEN ErrorResult(ErrOf(d.r, "previous"))
    ELSE DownRun(DownStep(d, R, P), R, P)

\* Downgrade(target, reqs, downgrade...), lines 372-468, run to its end.
DowngradeSeq(R, P, dl) ==
    IF R[Root].st = "fail" THEN ErrorResult(ErrOf(Root, "required"))
    ELSE DownRun(StartDown(dl, R[Root].val), R, P)

\* Scenario S5 of the specification, with A as path 0 and B as path 2.
S5Required ==
    (Root :> Ok(<<V(0, 3)>>)) @@ (V(0, 3) :> Ok(<<V(2, 3)>>))
        @@ (V(0, 2) :> Ok(<<V(2, 2)>>)) @@ (V(0, 1) :> Ok(<<V(2, 1)>>))

S5Previous == (V(0, 3) :> Ok(V(0, 2))) @@ (V(0, 2) :> Ok(V(0, 1)))

\* Downgrade on scenario S5, B@1 being the version to downgrade to.
S5Result == DowngradeSeq(S5Required, S5Previous, <<V(2, 1)>>)

\* What the entries of the returned list reach through reqs.Required, the
\* entries included.
KeptClosure == ReachFrom(reqd, Range(Tail(result.list)), {})

\* C15: when Downgrade returns a list, reqs.Required has succeeded on every
\* version its entries reach, and none of these versions is above the cap of
\* its path; on scenario S5 Downgrade returns [root, A@1].
C15_ClosureUnderCap ==
    /\ DowngradeReturnedList =>
          \A m \in KeptClosure : reqd[m].st = "ok" /\ ~AboveMax(down.max, m)
    /\ S5Result = ListResult(<<Root, V(0, 1)>>)

\* Downgrade has replaced a requirement of the target by an earlier version
\* that requires the capped path at the cap.
C15_Witness ==
    /\ DowngradeReturnedList
    /\ \E x \in Range(Tail(result.list)) :
          /\ x \notin Range(reqd[Root].val)
          /\ \E m \in Succ(reqd, x) :
                /\ m.path \in PathsOf(down.downgrade)
                /\ m.version = down.max[m.path]
                /\ \E y \in down.excluded : y.path = m.path


\* ==================================================================== C16
\* Downgrade has been called.
DownRunning == op = "Downgrade" /\ down.pc # "idle"

\* C16: a failure of reqs.Required on a version other than the target
\* excludes that version and, once Downgrade has returned, every added
\* version that requires an excluded one; Downgrade has then asked
\* reqs.Previous about every excluded requirement of the target; and the
\* only errors Downgrade returns are those of reqs.Required(target) and of
\* reqs.Previous.
C16_RequiredFailureExcludes ==
    /\ DownRunning =>
          \A m \in Vertices \ {Root} : reqd[m].st = "fail" => m \in down.excluded
    /\ DowngradeReturnedList =>
          /\ \A x \in down.added :
                (\E m \in Succ(reqd, x) : m \in down.excluded) => x \in down.excluded
          /\ \A x \in Range(reqd[Root].val) :
                x \in down.excluded => prev[x].st = "ok"
    /\ (Done /\ op = "Downgrade" /\ result.kind = "error") =>
          \/ result.err = ErrOf(Root, "required") /\ reqd[Root].st = "fail"
          \/ /\ result.err.call = "previous"
             /\ prev[result.err.vertex].st = "fail"

\* reqs.Required has failed on a requirement of the target, and Downgrade
\* has returned a list with an earlier version of that module.
C16_Witness ==
    /\ DowngradeReturnedList
    /\ \E m \in Range(reqd[Root].val) :
          /\ reqd[m].st = "fail"
          /\ \E x \in Range(Tail(result.list)) :
                x.path = m.path /\ x.version < m.version


\* ==================================================================== C17
\* The requirement r of the target is removed: r is excluded, and so is every
\* version the walk over reqs.Previous comes to, until it comes to "none".
RECURSIVE Removed(_)
Removed(r) ==
    /\ r \in down.excluded
    /\ prev[r].st = "ok"
    /\ LET p == Clamp(down.max, r, prev[r].val)
       IN  p.version = None \/ Removed(p)

\* C17: when every requirement of the target is removed, Downgrade returns
\* the list that holds the target alone, and no error.
C17_OnlyRootLeft ==
    (/\ Done /\ op = "Downgrade"
     /\ reqd[Root].st = "ok"
     /\ \A r \in Range(reqd[Root].val) : Removed(r)) =>
        result = ListResult(<<Root>>)

\* The target has two requirements; one is removed because the version to
\* downgrade to is "none", the other because reqs.Required fails on each of
\* its versions.
C17_Witness ==
    /\ Done /\ op = "Downgrade"
    /\ reqd[Root].st = "ok"
    /\ Len(reqd[Root].val) = 2
    /\ \A r \in Range(reqd[Root].val) : Removed(r)
    /\ \E r \in Range(reqd[Root].val) : down.max[r.path] = None
    /\ \E r \in Range(reqd[Root].val) :
          /\ reqd[r].st = "fail"
          /\ prev[r].val.version # None
          /\ reqd[prev[r].val].st = "fail"
    /\ result = ListResult(<<Root>>)


\* ==================================================================== C18
\* Some explored vertex requires the target, or is upgraded to it.
RootIsNeighbor ==
    \E m \in DOMAIN modGraph : Root \in Range(Neighbors(modGraph[m]))

\* C18, as stated: once the exploration is over, buildList comes to an end:
\* it returns a list or an error, or it panics.
C18_BuildListTerminates ==
    Explored => Returned.kind \in {"list", "error", "panic"}

\* C18, for the graphs on which it holds: buildList comes to an end when no
\* provider call has failed, and when no explored vertex has the target as
\* a neighbour.
C18_TerminatesUnlessRootIsNeighbor ==
    Explored =>
        (Returned.kind \notin {"list", "error", "panic"} =>
            haveErr # 0 /\ RootIsNeighbor)

\* buildList has returned a list for a graph with a cycle through the
\* target.
C18_Witness ==
    /\ Done /\ op = "BuildList" /\ result.kind = "list"
    /\ RootIsNeighbor
    /\ Len(result.list) = 3


\* ==================================================================== C19
\* The function passed to work.Do has run to its end on m: the node is
\* registered, and holds what reqs.Required has answered.
Processed(m) ==
    /\ m \in DOMAIN modGraph
    /\ m.version # None =>
          /\ Effective[m].st # "unknown"
          /\ Effective[m].st = "fail" => modGraph[m].err = ErrOf(m, "required")
          /\ Effective[m].st = "ok" => modGraph[m].required = Effective[m].val

\* C19: once work.Do has returned, every item ever added has been processed
\* and is registered in the graph map, nothing waits in the queue, and no
\* worker is inside the function.
C19_NoEarlyReturn ==
    Explored =>
        /\ todo = {}
        /\ \A w \in Workers : pc[w] = "idle" /\ item[w] = NoVersion
        /\ mu = 0
        /\ DOMAIN modGraph = added
        /\ \A m \in added : Processed(m)
        /\ \A m \in added : Range(Neighbors(modGraph[m])) \subseteq added

\* work.Do has returned after three items, the last of them added as the
\* upgrade of another one.
C19_Witness ==
    /\ phase = "explored"
    /\ op = "UpgradeAll"
    /\ Cardinality(added) = 3
    /\ \E m \in added :
          /\ modGraph[m].upgrade \notin {NoVersion, Root}
          /\ modGraph[m].upgrade \notin Range(modGraph[Root].required)
    /\ \A m \in added : Processed(m)


\* ==================================================================== C20
\* Scenario S3, with B = path 0 and C = path 2: the target requires B at
\* "none" and C@1, and C@1 requires B@2.
S3Required ==
    (Root :> Ok(<<V(0, None), V(2, 1)>>)) @@ (V(2, 1) :> Ok(<<V(0, 2)>>))
        @@ (V(0, 2) :> Ok(<<>>))

\* BuildList on scenario S3.
S3Result == BuildList(S3Required)

\* The explored versions of path p other than "none".
ExploredVersions(p) ==
    {m.version : m \in {x \in DOMAIN modGraph : x.path = p /\ x.version # None}}

\* C20: min never holds "none"; a list returned by BuildList, UpgradeAll or
\* Upgrade has no element at "none", lists exactly the paths explored at some
\* version other than "none", each at the greatest such version, so that a
\* vertex at "none" adds nothing to the selection; and BuildList on scenario
\* S3 returns [root, B@2, C@1].
C20_NoneNeverSelected ==
    /\ \A p \in DOMAIN min : min[p] # None
    /\ (Done /\ op \in {"BuildList", "UpgradeAll", "Upgrade"}
             /\ result.kind = "list") =>
          /\ \A i \in 1 .. Len(result.list) : result.list[i].version # None
          /\ PathsOf(result.list) =
                {m.path : m \in {x \in DOMAIN modGraph : x.version # None}}
          /\ \A i \in 2 .. Len(result.list) :
                result.list[i].version =
                    MaxOfSet(ExploredVersions(result.list[i].path))
    /\ S3Result = ListResult(<<Root, V(0, 2), V(2, 1)>>)

\* BuildList has run on scenario S3 and returned its list.
C20_Witness ==
    /\ Done /\ op = "BuildList"
    /\ reqd[Root] = Ok(<<V(0, None), V(2, 1)>>)
    /\ reqd[V(2, 1)] = Ok(<<V(0, 2)>>)
    /\ V(0, None) \in DOMAIN modGraph
    /\ result = ListResult(<<Root, V(0, 2), V(2, 1)>>)


\* ==================================================================== C21
\* buildList for BuildList and UpgradeAll, against a provider with any of the
\* implementations of reqs.Max.
InitAnyMax ==
    /\ op \in {"BuildList", "UpgradeAll"}
    /\ base = <<>>
    /\ extras = <<>>
    /\ reqd = [v \in Vertices |-> Unknown]
    /\ upg = [v \in Vertices |-> Unknown]
    /\ ovList = <<>>
    /\ upgradeTo = EmptyMap
    /\ added = {}
    /\ todo = {}
    /\ pc = [w \in Workers |-> "idle"]
    /\ item = [w \in Workers |-> NoVersion]
    /\ mu = 0
    /\ modGraph = EmptyMap
    /\ min = EmptyMap
    /\ haveErr = 0
    /\ phase = "call"
    /\ result = NoResult
    /\ prev = [v \in Vertices |-> Unknown]
    /\ down = NoDown
    /\ maxImpl \in MaxImpls
    /\ nextAdd = [w \in Workers |-> 0]

NextAnyMax ==
    \/ StartExplore
    \/ \E w \in Workers : Take(w)
    \/ \E w \in Workers : Lock(w)
    \/ \E w \in Workers : Unlock(w)
    \/ \E w \in Workers : CallRequired(w)
    \/ \E w \in Workers : AddRequired(w)
    \/ \E w \in Workers : CallUpgrade(w)
    \/ \E w \in Workers : AddUpgrade(w)
    \/ RunReturn
    \/ Finish

SpecAnyMax == InitAnyMax /\ [][NextAnyMax]_vars

\* The selection does not keep the target at its version.
RootNotSelected == Lookup(min, RootPath, EmptyVer) # RootVer

\* Some requirement r, not at "none", of a selected version off the target's
\* path is not satisfied by the selection.
SelectionUnsatisfied ==
    \E p \in DOMAIN min \ {RootPath} :
        /\ V(p, min[p]) \in DOMAIN modGraph
        /\ \E r \in Range(modGraph[V(p, min[p])].required) :
              /\ r.version # None
              /\ MaxBy(maxImpl, Lookup(min, r.path, EmptyVer), r.version)
                     # Lookup(min, r.path, EmptyVer)

\* What buildList comes to once work.Do has returned.
ReturnedBy == AfterExploreBy(maxImpl, modGraph, min, haveErr)

\* C21 as stated: whenever the selection is broken after the exploration,
\* buildList panics.
C21_BrokenSelectionPanics ==
    (Explored /\ (RootNotSelected \/ SelectionUnsatisfied)) =>
        ReturnedBy.kind = "panic"

\* C21: whenever the selection is broken after an exploration in which no
\* provider call has failed, buildList panics: it returns neither a list nor
\* an error, and the operation ends without a result.
C21_BrokenSelectionPanicsUnlessFailed ==
    /\ (Explored /\ haveErr = 0 /\ (RootNotSelected \/ SelectionUnsatisfied)) =>
          /\ ReturnedBy = Panic
          /\ Done => result = Panic
    /\ (Done /\ result.kind = "list") => ~RootNotSelected /\ ~SelectionUnsatisfied

\* buildList has panicked on a requirement that the selection does not
\* satisfy, the target being selected at its version.
C21_Witness ==
    /\ Done /\ result = Panic
    /\ haveErr = 0
    /\ ~RootNotSelected
    /\ SelectionUnsatisfied


\* ==================================================================== C22
\* The neighbours of m in the order the reporter visits them, by the
\* provider's own answers: the required list, then the upgrade target.
NeighborsOf(m) ==
    IF FailedCall(m) # "nil" THEN <<>>
    ELSE LET required == IF m.version # None THEN Effective[m].val ELSE <<>>
             u == IF UpgradeMode(op) # "nil"
                  THEN (CHOOSE a \in UpgradeCall(op, upg, upgradeTo, m) : TRUE).val
                  ELSE m
         IN  IF u # m THEN Append(required, u) ELSE required

\* The neighbours nbrs[i..] that no vertex has led to yet are recorded as
\* found from n and queued.  st is [q, parent].
RECURSIVE Discover(_, _, _, _)
Discover(nbrs, i, n, st) ==
    IF i > Len(nbrs) THEN st
    ELSE Discover(nbrs, i + 1, n,
             IF nbrs[i] \in DOMAIN st.parent THEN st
             ELSE [q |-> Append(st.q, nbrs[i]),
                   parent |-> Put(st.parent, nbrs[i], n)])

\* Breadth-first search from the target over the provider's answers: the
\* first vertex dequeued on which a provider call failed, with the vertices
\* each vertex was first found from.  NoVersion when no vertex fails.
RECURSIVE FirstFailing(_)
FirstFailing(st) ==
    IF st.q = <<>> THEN [vertex |-> NoVersion, parent |-> st.parent]
    ELSE LET n == Head(st.q)
         IN  IF FailedCall(n) # "nil" THEN [vertex |-> n, parent |-> st.parent]
             ELSE FirstFailing(Discover(NeighborsOf(n), 1, n,
                                        [st EXCEPT !.q = Tail(st.q)]))

\* Lines 160-172 on the search's own map: the vertices from the one nothing
\* is recorded for down to m, each found first from the one before.  The walk
\* ends only at a vertex without an entry; when it comes back to a vertex of
\* seen it never ends, and there is no path (the empty sequence).
RECURSIVE ChainTo(_, _, _)
ChainTo(parent, m, seen) ==
    IF m \notin DOMAIN parent THEN <<m>>
    ELSE IF parent[m] \in seen THEN <<>>
    ELSE LET up == ChainTo(parent, parent[m], seen \cup {parent[m]})
         IN  IF up = <<>> THEN <<>> ELSE Append(up, m)

\* The failing vertices that have been explored.
FailedVertices == {m \in DOMAIN modGraph : modGraph[m].err # NoErr}

\* C22: when buildList returns an error, the error is that of the first
\* failing vertex a breadth-first search from the target dequeues (required
\* list in order, then the upgrade target), errPath is the chain of first
\* discoverers from the target to it, and both are what a single worker
\* obtains: they depend on the provider only, not on the interleaving.
C22_FirstFailingInBfsOrder ==
    (Explored /\ Returned.kind = "error") =>
        LET f == FirstFailing([q |-> <<Root>>, parent |-> EmptyMap])
        IN  /\ f.vertex # NoVersion
            /\ f.vertex \in FailedVertices
            /\ Returned.err = ErrOf(f.vertex, FailedCall(f.vertex))
            /\ Returned.errPath = ChainTo(f.parent, f.vertex, {f.vertex})
            /\ Returned = BuildListSeq(op, reqd, ovList, upg, upgradeTo)
            /\ (Done /\ op # "Req") => result = Returned

\* Two requirements of the target have failed, and the error is that of the
\* one listed first.
C22_Witness ==
    /\ Done /\ result.kind = "error"
    /\ Len(reqd[Root].val) = 2
    /\ reqd[Root].val[1] # reqd[Root].val[2]
    /\ Range(reqd[Root].val) \subseteq FailedVertices
    /\ result.err.vertex = reqd[Root].val[1]
    /\ result.errPath = <<Root, reqd[Root].val[1]>>


\* ==================================================================== C23
\* The vertices reached from the target through vertices whose provider calls
\* succeeded, by the provider's own answers.
RECURSIVE ReachThroughOk(_, _)
ReachThroughOk(frontier, seen) ==
    IF frontier \subseteq seen THEN seen
    ELSE ReachThroughOk(
             UNION {Range(NeighborsOf(m)) : m \in frontier \ seen},
             seen \cup frontier)

\* The function passed to work.Do has run to its end on m, the upgrade step
\* included.
FullyProcessed(m) ==
    /\ Processed(m)
    /\ \A w \in Workers : item[w] # m
    /\ FailedCall(m) = "nil" => Neighbors(modGraph[m]) = NeighborsOf(m)
    /\ FailedCall(m) # "nil" => modGraph[m].err = ErrOf(m, FailedCall(m))

\* C23: once the exploration is over with a failure recorded, every vertex
\* reached from the target through vertices whose provider calls succeeded
\* has been processed to its end; so it is when buildList returns its error.
C23_FailureDoesNotShortCircuit ==
    (Explored /\ haveErr # 0) =>
        \A m \in ReachThroughOk({Root}, {}) :
            m \in DOMAIN modGraph /\ FullyProcessed(m)

\* buildList has returned the error of the target's first requirement, and
\* the second requirement and what it requires have been processed too.
C23_Witness ==
    /\ Done /\ result.kind = "error" /\ op = "BuildList"
    /\ Len(reqd[Root].val) = 2
    /\ result.err.vertex = reqd[Root].val[1]
    /\ reqd[reqd[Root].val[2]].st = "ok"
    /\ \E x \in Range(reqd[reqd[Root].val[2]].val) :
          /\ x \notin {Root} \cup Range(reqd[Root].val)
          /\ x.version # None
          /\ FullyProcessed(x)


\* ==================================================================== C24
\* Where a Version stands in the exploration: 0 not added, 1 queued,
\* 2 resolving (a worker holds it), 3 ok, 4 errored.
NodeStateOf(ad, td, it, mg, m) ==
    IF m \notin ad THEN 0
    ELSE IF m \in td THEN 1
    ELSE IF \E w \in Workers : it[w] = m THEN 2
    ELSE IF m \in DOMAIN mg /\ mg[m].err # NoErr THEN 4
    ELSE 3

\* The worker that holds m, if any, is alone in holding it.
HeldByOne(m) == Cardinality({w \in Workers : item[w] = m}) <= 1

\* C24: in every step of an exploration, a graph node is created only for a
\* Version that has none; the node of a Version changes only in a step of
\* the one worker that holds it; no Version goes back from queued to not
\* added, from resolving to queued, or from ok or errored to anything else;
\* and reqs.Required and reqs.Upgrade are asked only about a Version the
\* provider has not been asked about before.
C24_EachVersionProcessedOnce ==
    [][ /\ \A w \in Workers :
              /\ (pc[w] = "lock" /\ pc'[w] = "unlock") =>
                     item[w] \notin DOMAIN modGraph
              /\ (pc[w] = "required" /\ pc'[w] # "required") =>
                     \/ reqd[item[w]] = Unknown
                     \/ op = "Upgrade" /\ item[w] = Root
              /\ (pc[w] = "upgrade" /\ pc'[w] # "upgrade"
                     /\ UpgradeAsks(op, item[w])) =>
                     upg[item[w]] = Unknown
        /\ \A m \in DOMAIN modGraph :
              /\ m \in DOMAIN modGraph'
              /\ modGraph'[m] # modGraph[m] =>
                     \E w \in Workers :
                         /\ item[w] = m /\ pc'[w] # pc[w]
                         /\ \A x \in Workers \ {w} : item[x] # m /\ item'[x] # m
        /\ \A m \in Vertices :
              LET before == NodeStateOf(added, todo, item, modGraph, m)
                  after == NodeStateOf(added', todo', item', modGraph', m)
              IN  /\ after >= before
                  /\ before >= 3 => after = before
                  /\ HeldByOne(m)' ]_vars

\* The exploration is over, and one Version was added three times: it is
\* a neighbour of three others.
C24_Witness ==
    /\ Explored
    /\ \E m \in DOMAIN modGraph :
          /\ Cardinality({n \in DOMAIN modGraph :
                             m \in Range(Neighbors(modGraph[n]))}) = 3
          /\ NodeStateOf(added, todo, item, modGraph, m) = 3


\* ==================================================================== C25
\* Line 112: the update of min for m calls reqs.Max when m is not at "none"
\* and its path has a version in min already.
MinUpdateCallsMax(mn, m) == m.version # None /\ m.path \in DOMAIN mn

\* Worker w holds the mutex and has called reqs.Max since it took it: between
\* lines 109 and 116 its item met, in min, the version of another vertex of
\* its path.
CalledMaxUnderMutex(w) ==
    /\ mu = w
    /\ pc[w] = "unlock"
    /\ \E x \in DOMAIN modGraph \ {item[w]} :
          /\ x.version # None
          /\ MinUpdateCallsMax(MinUpdateBy(maxImpl, EmptyMap, x), item[w])

\* C25 as stated: a worker that holds the mutex is at the map updates and
\* has called no provider method, reqs.Max included.
C25_NoProviderCallUnderMutex ==
    \A w \in Workers :
        /\ mu = w => pc[w] = "unlock"
        /\ pc[w] \in {"required", "upgrade"} => mu # w
        /\ ~CalledMaxUnderMutex(w)

\* C25: a worker that holds the mutex is between lines 109 and 116 (the map
\* updates, with the call of reqs.Max they make), a worker about to call
\* reqs.Required or the upgrade function does not hold it, and the mutex has
\* one holder.
C25_RequiredAndUpgradeOutsideMutex ==
    /\ mu \in {0} \cup Workers
    /\ \A w \in Workers :
          /\ mu = w => pc[w] = "unlock"
          /\ pc[w] = "unlock" => mu = w
          /\ pc[w] \in {"required", "upgrade"} => mu # w

\* One worker is about to call reqs.Required while the other holds the mutex
\* and has compared two versions of a path under it.
C25_Witness ==
    \E w, x \in Workers :
        /\ pc[w] = "required"
        /\ CalledMaxUnderMutex(x)


\* ==================================================================== C26
\* Downgrade has set up its maps (lines 387-391), in state d.
HasMarks(d) == "added" \in DOMAIN d

\* The versions other than the target that Downgrade has appended to out.
Kept(d) == Range(d.out) \ {Root}

\* Where an exact version stands in Downgrade: 0 unvisited, 1 added,
\* 2 excluded, 3 kept.
MarkOf(d, m) ==
    IF m \in d.excluded THEN 2
    ELSE IF m \in Kept(d) THEN 3
    ELSE IF m \in d.added THEN 1
    ELSE 0

\* C26: in every step of Downgrade a version that is marked added stays so,
\* an excluded version stays excluded, every excluded version is marked
\* added, a version appended to the output is marked added and stays in the
\* output, not excluded; so no version of the returned list other than the
\* target is excluded when Downgrade returns.
C26_MarksOnlyMoveForward ==
    [][ (HasMarks(down) /\ HasMarks(down')) =>
            /\ down.added \subseteq down'.added
            /\ down.excluded \subseteq down'.excluded
            /\ down'.excluded \subseteq down'.added
            /\ Kept(down) \subseteq Kept(down')
            /\ Kept(down') \subseteq down'.added \ down'.excluded
            /\ \A m \in DownVertices :
                  /\ MarkOf(down, m) = 0 => MarkOf(down', m) \in {0, 1, 2}
                  /\ MarkOf(down, m) = 1 => MarkOf(down', m) \in {1, 2, 3}
                  /\ MarkOf(down, m) >= 2 => MarkOf(down', m) = MarkOf(down, m)
            /\ (phase' = "done" /\ result'.kind = "list") =>
                  /\ result'.list = down'.out
                  /\ \A i \in 2 .. Len(result'.list) :
                        result'.list[i] # Root =>
                            result'.list[i] \notin down'.excluded ]_vars

\* Downgrade has returned a list with a kept version, after excluding a
\* version that was added without being above its cap.
C26_Witness ==
    /\ DowngradeReturnedList
    /\ Kept(down) # {}
    /\ \E m \in down.excluded :
          /\ ~AboveMax(down.max, m)
          /\ reqd[m].st = "ok"
          /\ \E x \in Kept(down) : x.path = m.path


\* ==================================================================== C27
\* A step of the loop of lines 441-463 in which reqs.Previous(r) returns
\* "none" for the excluded r.
PreviousReturnsNone ==
    /\ phase = "down"
    /\ down.pc = "while"
    /\ down.r \in down.excluded
    /\ prev'[down.r] = Ok(V(down.r.path, None))

\* The step appends nothing and goes on to the next requirement of the
\* target.
DropsRequirement ==
    /\ down'.out = down.out
    /\ down'.i = down.i + 1
    /\ down'.pc = "list"

\* Lines 455-457 put the cap of r's path in the place of the "none" that
\* reqs.Previous(r) returned: r is above the cap, and the cap is a version.
CapStandsInForNone(d) ==
    Clamp(d.max, d.r, V(d.r.path, None)).version # None

\* C27 as stated: whenever reqs.Previous returns "none" for an excluded r,
\* nothing is appended for this requirement.
C27_NoneDropsRequirement ==
    [][PreviousReturnsNone => DropsRequirement]_vars

\* C27: whenever reqs.Previous returns "none" for an excluded r that is not
\* above a cap of its path, nothing is appended for this requirement and
\* Downgrade goes on to the next one; when r is above a cap that is a
\* version, the cap is the next candidate.
C27_NoneDropsRequirementUnlessCapBelow ==
    [][PreviousReturnsNone =>
          /\ ~CapStandsInForNone(down) => DropsRequirement
          /\ CapStandsInForNone(down) =>
                /\ down'.out = down.out
                /\ down'.i = down.i
                /\ down'.pc = "call"
                /\ down'.r = V(down.r.path, down.max[down.r.path])
                /\ down'.callee = down'.r ]_vars

\* Downgrade has returned a list of the target and one more version; a
\* requirement of the target that reqs.Required failed on was dropped when
\* reqs.Previous returned "none" for it.
C27_Witness ==
    /\ DowngradeReturnedList
    /\ Len(result.list) = 2
    /\ \E r \in Range(down.list) :
          /\ r \in down.excluded
          /\ reqd[r].st = "fail"
          /\ ~AboveMax(down.max, r)
          /\ prev[r] = Ok(V(r.path, None))
          /\ r.path \notin PathsOf(result.list)


\* ==================================================================== C28
\* Downgrade on a module with one more released version than Downgrade's other
\* provider has (path 0, versions 1 .. MaxVer + 1), so that reqs.Previous can
\* step from above a cap to below it.  The provider is drawn whole at the
\* start: the target requires one version of the module, reqs.Required
\* succeeds (with no requirements) or fails on each version, and
\* reqs.Previous returns any lower version, "none", or fails.
DeepVersions == 1 .. (MaxVer + 1)

DeepRequired ==
    {[m \in {Root} \cup {V(0, v) : v \in DeepVersions} |->
          IF m = Root THEN Ok(<<V(0, top)>>)
          ELSE IF m.version \in ok THEN Ok(<<>>) ELSE Fail] :
        top \in DeepVersions, ok \in SUBSET DeepVersions}

DeepPrevious ==
    {[m \in {V(0, v) : v \in DeepVersions} |->
          IF f[m.version] = EmptyVer THEN Fail ELSE Ok(V(0, f[m.version]))] :
        f \in {g \in [DeepVersions -> {EmptyVer} \cup (None .. MaxVer)] :
                  \A v \in DeepVersions : g[v] < v}}

InitDeep ==
    /\ op = "Downgrade"
    /\ base = <<>>
    /\ extras = <<>>
    /\ reqd \in DeepRequired
    /\ upg = [v \in Vertices |-> Unknown]
    /\ ovList = <<>>
    /\ upgradeTo = EmptyMap
    /\ added = {}
    /\ todo = {}
    /\ pc = [w \in Workers |-> "idle"]
    /\ item = [w \in Workers |-> NoVersion]
    /\ mu = 0
    /\ modGraph = EmptyMap
    /\ min = EmptyMap
    /\ haveErr = 0
    /\ phase = "call"
    /\ result = NoResult
    /\ prev \in DeepPrevious
    /\ down = NoDown
    /\ maxImpl = "contract"
    /\ nextAdd = [w \in Workers |-> 0]

\* Downgrade, lines 372-437, with at most one version to downgrade to.
DeepCall ==
    /\ phase = "call"
    /\ \E dl \in SeqsUpTo({V(0, v) : v \in None .. (MaxVer + 1)}, 1) :
          down' = StartDown(dl, reqd[Root].val)
    /\ phase' = "down"
    /\ UNCHANGED <<op, reqd, prev, result, bvars>>

\* One step of lines 438-467.
DeepStep ==
    /\ phase = "down"
    /\ down' = DownStep(down, reqd, prev)
    /\ IF down'.pc = "done"
       THEN result' = ListResult(down'.out) /\ phase' = "done"
       ELSE IF down'.pc = "error"
       THEN result' = ErrorResult(ErrOf(down.r, "previous")) /\ phase' = "done"
       ELSE UNCHANGED <<result, phase>>
    /\ UNCHANGED <<op, reqd, prev, bvars>>

NextDeep == DeepCall \/ DeepStep

SpecDowngradeDeep == InitDeep /\ [][NextDeep]_vars

\* The step of lines 441-463 in which reqs.Previous(r) has returned a version
\* (or "none") for the excluded r.
PreviousReturned ==
    /\ phase = "down"
    /\ down.pc = "while"
    /\ down.r \in down.excluded
    /\ prev[down.r].st = "ok"

\* Version v is strictly below version w.
Below(v, w) == Max(v, w) # v

\* The version the walk goes on with after this step: the one add is called
\* on, or "none" when the requirement is dropped.
NextCandidate ==
    IF down'.pc = "call" /\ down'.callee = down'.r /\ down'.out = down.out
    THEN down'.r
    ELSE IF DropsRequirement THEN V(down.r.path, None)
    ELSE NoVersion

\* C28: when r is above the cap of its path and reqs.Previous(r) returns a
\* version other than "none" strictly below the cap, the next candidate is
\* the cap; when reqs.Previous(r) is at or above the cap, or r is at or below
\* the cap, the next candidate is what reqs.Previous(r) returned.
C28_ClampToCap ==
    [][PreviousReturned =>
          LET r == down.r
              p == prev[r].val
              cap == down.max[r.path]
          IN  /\ r.path \in DOMAIN down.max
              /\ (Below(cap, r.version) /\ p.version # None
                      /\ Below(p.version, cap)) =>
                     NextCandidate = V(r.path, cap)
              /\ (~Below(p.version, cap) \/ ~Below(cap, r.version)) =>
                     NextCandidate = p ]_vars

\* Downgrade has returned the target and the cap of the module, which
\* reqs.Previous never returns: it steps from above the cap to below it.
C28_Witness ==
    /\ DowngradeReturnedList
    /\ down.downgrade = <<V(0, 2)>>
    /\ reqd[Root].val = <<V(0, 3)>>
    /\ prev[V(0, 3)] = Ok(V(0, 1))
    /\ \A m \in DOMAIN prev : prev[m] # Ok(V(0, 2))
    /\ result.list = <<Root, V(0, 2)>>


\* ==================================================================== C29
\* The least element of a non-empty set of versions under reqs.Max.
MinOfSet(S) == CHOOSE v \in S : \A w \in S : Max(v, w) = w

\* The version the target requires of path p: the one its list gives last.
RootRequires(list, p) ==
    LET I == {i \in 1 .. Len(list) : list[i].path = p}
    IN  list[CHOOSE i \in I : \A j \in I : j <= i].version

\* The versions that bear on the cap of path p: the version the target
\* requires and the versions to downgrade to.
CapVersions(list, dl, p) ==
    (IF p \in PathsOf(list) THEN {RootRequires(list, p)} ELSE {})
        \cup {x.version : x \in {y \in Range(dl) : y.path = p}}

\* C29: once Downgrade has set up max, it has an entry for the paths the
\* target requires and the paths of the versions to downgrade to; the entry
\* is the least, under reqs.Max, of the version the target requires and the
\* versions to downgrade to of that path, so it is never above the version
\* the target requires; and the versions to downgrade to taken in the
\* opposite order give the same map.
C29_CapIsLeast ==
    (op = "Downgrade" /\ HasMarks(down)) =>
        /\ DOMAIN down.max = PathsOf(down.list) \cup PathsOf(down.downgrade)
        /\ \A p \in DOMAIN down.max :
              /\ down.max[p] = MinOfSet(CapVersions(down.list, down.downgrade, p))
              /\ p \in PathsOf(down.list) =>
                    Max(down.max[p], RootRequires(down.list, p))
                        = RootRequires(down.list, p)
        /\ down.max = MaxOfDowngrade(Reverse(down.downgrade), 1,
                                     MaxOfRequired(down.list, 1, EmptyMap))

\* Two versions to downgrade to, the lower one first, of a path the target
\* does not require, and one above what the target requires of another path.
C29_Witness ==
    /\ op = "Downgrade" /\ HasMarks(down)
    /\ down.list = <<V(0, 1)>>
    /\ down.downgrade = <<V(0, 2), V(2, 1)>>
    /\ down.max = (0 :> 1) @@ (2 :> 1)


\* ==================================================================== C30
\* The vertices on which reqs.Required has failed, an upgrade function being
\* in use.
RequiredFailedUnderUpgrade ==
    {m \in DOMAIN modGraph :
        UpgradeMode(op) # "nil" /\ modGraph[m].err = ErrOf(m, "required")}

\* The upgrade step, lines 130-140, has been performed for m: the upgrade
\* function has its answer for m, and an answer other than m is recorded on
\* the node and was added to the queue.
UpgradeStepDone(m) ==
    LET answers == UpgradeCall(op, upg, upgradeTo, m)
    IN  /\ Cardinality(answers) = 1
        /\ \A a \in answers :
              (a.st = "ok" /\ a.val # m) =>
                  modGraph[m].upgrade = a.val /\ a.val \in added

\* C30 as stated: after a failure of reqs.Required on m the upgrade step is
\* still performed for m.
C30_UpgradeAfterRequiredFailure ==
    Explored => \A m \in RequiredFailedUnderUpgrade : UpgradeStepDone(m)

\* C30: a failure of reqs.Required on m is recorded on the node, sets the
\* has-error flag, and ends the processing of m: no worker is at the upgrade
\* step with m, reqs.Upgrade is not asked about m, and no upgrade target is
\* recorded on its node.
C30_RequiredFailureEndsItem ==
    \A m \in RequiredFailedUnderUpgrade :
        /\ haveErr = 1
        /\ \A w \in Workers : item[w] # m
        /\ UpgradeAsks(op, m) => upg[m] = Unknown
        /\ modGraph[m].upgrade = NoVersion
        /\ modGraph[m].required = <<>>

\* Upgrade has returned the error of a vertex on which reqs.Required failed
\* and for whose path upgradeTo holds another version: that version was
\* neither recorded nor added.
C30_Witness ==
    /\ Done /\ op = "Upgrade" /\ result.kind = "error"
    /\ \E m \in RequiredFailedUnderUpgrade :
          /\ result.err.vertex = m
          /\ UpgradeToFn(upgradeTo, m) # m
          /\ UpgradeToFn(upgradeTo, m) \notin added

\* ==================================================================== C31
\* isUpgrade(from, to) of a build-list error, lines 174-176: a map lookup,
\* the zero module.Version when from has no entry.
IsUpgrade(r, from, to) == Lookup(r.pathUpgrade, from, NoVersion) = to

\* What the upgrade function answers for m, as far as the provider has been
\* asked: the zero module.Version when it has not answered or has failed.
UpgradeAnswerFor(m) ==
    LET answers == UpgradeCall(op, upg, upgradeTo, m)
    IN  IF UpgradeMode(op) = "nil" \/ Cardinality(answers) # 1 THEN NoVersion
        ELSE LET a == CHOOSE x \in answers : TRUE
             IN  IF a.st = "ok" THEN a.val ELSE NoVersion

\* buildList has returned a build-list error.
BuildListError == Done /\ result.kind = "error" /\ Len(result.errPath) >= 1

\* C31: for every consecutive pair (from, to) on the errPath of a build-list
\* error, isUpgrade(from, to) is true exactly when the upgrade target recorded
\* on the node of from is to, which is what the upgrade function answered for
\* from; it is false for a pair that only a required edge connects.
C31_IsUpgradeMarksUpgradeEdges ==
    BuildListError =>
        \A i \in 1 .. Len(result.errPath) - 1 :
            LET from == result.errPath[i]
                to == result.errPath[i + 1]
            IN  /\ IsUpgrade(result, from, to) <=> modGraph[from].upgrade = to
                /\ IsUpgrade(result, from, to) <=> UpgradeAnswerFor(from) = to
                /\ (to \in Range(modGraph[from].required)
                        /\ modGraph[from].upgrade # to) =>
                       ~IsUpgrade(result, from, to)

\* The error path goes from the target along a required edge and then along
\* an upgrade edge to the failing vertex.
C31_Witness ==
    /\ BuildListError
    /\ Len(result.errPath) = 3
    /\ ~IsUpgrade(result, result.errPath[1], result.errPath[2])
    /\ result.errPath[2] \in Range(modGraph[Root].required)
    /\ IsUpgrade(result, result.errPath[2], result.errPath[3])
    /\ modGraph[result.errPath[2]].upgrade = result.errPath[3]

\* ==================================================================== C32
\* The vertices at "none" that have a node in the graph.
NoneNodes == {m \in DOMAIN modGraph : m.version = None}

\* The versions other than "none" at which path p has a node in the graph.
NodeVersions(p) ==
    {m.version : m \in {x \in DOMAIN modGraph : x.path = p /\ x.version # None}}

\* C32: the explorer never calls reqs.Required on a vertex at "none" (only
\* Req's own walk, after buildList has returned, asks about such vertices);
\* the vertex gets a node, which holds no requirements and no error of
\* reqs.Required; min is what the other vertices make it, a path explored at
\* "none" only having no entry; and when an upgrade function is in use it is
\* called for the vertex, its answer being recorded like any other.
C32_NoneIsNotAskedButUpgraded ==
    /\ \A w \in Workers : pc[w] = "required" => item[w].version # None
    /\ \/ op = "Req" /\ phase = "done"
       \/ \A v \in Vertices : v.version = None => reqd[v] = Unknown
    /\ \A m \in NoneNodes :
          /\ modGraph[m].required = <<>>
          /\ modGraph[m].err # ErrOf(m, "required")
    /\ \A p \in Paths :
          /\ p \in DOMAIN min <=> NodeVersions(p) # {}
          /\ p \in DOMAIN min => min[p] = MaxOfSet(NodeVersions(p))
    /\ Explored =>
          /\ \A m \in added : m \in DOMAIN modGraph
          /\ UpgradeMode(op) # "nil" =>
                \A m \in NoneNodes :
                    /\ UpgradeStepDone(m)
                    /\ UpgradeAnswerFor(m) = NoVersion <=>
                           modGraph[m].err = ErrOf(m, "upgrade")

\* The target requires a module at "none" that reqs.Upgrade brings to a
\* released version: the path is selected at that version, reqs.Required
\* was asked about the released version and never about "none".
C32_Witness ==
    /\ Done /\ op = "UpgradeAll" /\ result.kind = "list"
    /\ \E m \in NoneNodes :
          /\ m \in Range(modGraph[Root].required)
          /\ modGraph[m].upgrade.version \in 1 .. MaxVer
          /\ min[m.path] = modGraph[m].upgrade.version
          /\ reqd[modGraph[m].upgrade].st = "ok"
          /\ reqd[m] = Unknown

\* ==================================================================== C33
\* The versions on which reqs.Previous has failed.
PreviousFailed(P) == {v \in Vertices : P[v].st = "fail"}

\* C33: in every step of Downgrade, a failure of reqs.Previous on a version
\* makes Downgrade return at once, with that failure as its error and no
\* list; and once reqs.Previous has failed no provider method is called and
\* nothing Downgrade has returned changes.
C33_PreviousFailureEndsDowngrade ==
    [][/\ \A v \in PreviousFailed(prev') :
             /\ phase' = "done"
             /\ result' = ErrorResult(ErrOf(v, "previous"))
             /\ result'.list = <<>>
             /\ down'.pc = "error"
       /\ PreviousFailed(prev) # {} =>
             /\ reqd' = reqd
             /\ prev' = prev
             /\ result' = result]_vars

\* reqs.Previous has failed after Downgrade had kept one requirement of the
\* target and reqs.Previous had answered for another version: Downgrade has
\* returned the error and not the list it had built.
C33_Witness ==
    /\ Done /\ op = "Downgrade"
    /\ PreviousFailed(prev) # {}
    /\ result.kind = "error" /\ result.list = <<>>
    /\ Len(down.out) >= 2
    /\ \E v \in Vertices : prev[v].st = "ok"

\* ==================================================================== C34
\* C34: with a reqs.Max that keeps the contract of lines 30-43 no run panics;
\* and when no provider call has failed, buildList gets through both tests
\* of its finalizer (lines 198 and 219) in every interleaving of the workers,
\* on graphs with cycles too: BuildList, UpgradeAll and Upgrade return a
\* list.
C34_NoPanicUnderContract ==
    /\ result.kind # "panic"
    /\ (Explored /\ ~ProviderFailed) =>
          /\ phase # "hung"
          /\ Returned.kind = "list"
          /\ min[RootPath] = RootVer
          /\ ~Unsatisfied(modGraph, min)
    /\ (Done /\ op \in {"BuildList", "UpgradeAll", "Upgrade"} /\ ~ProviderFailed) =>
          result.kind = "list"

\* A list was returned for a graph with a cycle through a lower version of
\* the target's path, in which a path is required at two versions: both
\* tests of the finalizer had something to compare.
C34_Witness ==
    /\ Done /\ op \in {"BuildList", "UpgradeAll", "Upgrade"} /\ ~ProviderFailed
    /\ result.kind = "list"
    /\ \E m \in DOMAIN modGraph :
          m.path = RootPath /\ m.version \in 1 .. MaxVer
    /\ \E m \in DOMAIN modGraph : \E r \in Range(modGraph[m].required) :
          /\ r.version # None /\ r.path # RootPath
          /\ min[m.path] = m.version
          /\ min[r.path] # r.version

\* ==================================================================== C35
\* UpgradeAll or Upgrade has returned a list.
UpgradedList ==
    Done /\ op \in {"UpgradeAll", "Upgrade"} /\ result.kind = "list"

\* Some element of list has path p at a version that is not below b.
HoldsAtLeast(list, p, b) ==
    \E y \in Range(list) : y.path = p /\ Max(y.version, b) = y.version

\* C35: when UpgradeAll or Upgrade returns a list, BuildList returns one
\* for the same target and provider, and every path BuildList selects at
\* version b is in the returned list at a version s with Max(s, b) = s.
C35_UpgradeNeverLowers ==
    UpgradedList =>
        /\ BuildList(reqd).kind = "list"
        /\ \A x \in Range(BuildList(reqd).list) :
              HoldsAtLeast(result.list, x.path, x.version)

\* Upgrade was given an extra below the version BuildList selects for its
\* path, and has returned the path at the version BuildList selects.
C35_Witness ==
    /\ UpgradedList /\ op = "Upgrade"
    /\ \E k \in 1 .. Len(extras) :
          \E x \in Range(BuildList(reqd).list) :
              /\ x.path = extras[k].path
              /\ extras[k].version \in 1 .. MaxVer
              /\ extras[k].version < x.version
              /\ x \in Range(result.list)

\* ==================================================================== C36
\* The versions reqs.Previous leads to from m, m included, "none" left out.
RECURSIVE PreviousChain(_, _)
PreviousChain(P, m) ==
    {m} \cup (IF m \in DOMAIN P /\ P[m].st = "ok" /\ P[m].val.version # None
              THEN PreviousChain(P, P[m].val)
              ELSE {})

\* The elements of t follow, one for one and in the same order, elements of
\* s of the same path.
FollowsPathsOf(t, s) ==
    \E f \in [1 .. Len(t) -> 1 .. Len(s)] :
        /\ \A i, j \in 1 .. Len(t) : i < j => f[i] < f[j]
        /\ \A i \in 1 .. Len(t) : t[i].path = s[f[i]].path

\* The requirement of the target that x stands for.
RequirementFor(x) ==
    CHOOSE r \in Range(reqd[Root].val) : r.path = x.path

\* C36: the list Downgrade returns starts with the target; its tail follows
\* the target's requirements in their order, at most one element for each
\* and of the same path; and the version of each element is the required
\* version, a version reqs.Previous leads to from it, or the cap of the path.
C36_TailFromRequirementChain ==
    DowngradeReturnedList =>
        /\ result.list[1] = Root
        /\ FollowsPathsOf(Tail(result.list), reqd[Root].val)
        /\ \A x \in Range(Tail(result.list)) :
              \/ x \in PreviousChain(prev, RequirementFor(x))
              \/ x.version = down.max[x.path]

\* Downgrade on the module of SpecDowngradeDeep (path 0) and a second module
\* with one version (path 2), which the target may require before or after
\* the first; reqs.Required succeeds or fails on it, reqs.Previous returns
\* "none" for it or fails.  For path 0 reqs.Previous answers from one
\* history of versions: it fails, or returns the version immediately prior
\* among those the provider knows (lines 58-60), so that what it returned
\* from above an excluded cap it returns again from the cap (line 454).
WideRequired ==
    {[m \in {Root, V(2, 1)} \cup {V(0, v) : v \in DeepVersions} |->
          IF m = Root
          THEN Ok(CASE ord = "first" -> <<V(0, top), V(2, 1)>>
                    [] ord = "last" -> <<V(2, 1), V(0, top)>>
                    [] OTHER -> <<V(0, top)>>)
          ELSE IF m.version \in ok[m.path] THEN Ok(<<>>) ELSE Fail] :
        top \in DeepVersions, ord \in {"first", "last", "alone"},
        ok \in [{0, 2} -> SUBSET DeepVersions]}

\* The version immediately prior to v among the known versions K, or "none"
\* if no such version is known.
PriorIn(K, v) ==
    LET S == {k \in K : Max(k, v) # k}
    IN  IF S = {} THEN None ELSE MaxOfSet(S)

WidePrevious ==
    {[m \in {V(2, 1)} \cup {V(0, v) : v \in DeepVersions} |->
          IF m.path = 2 THEN a
          ELSE IF m.version \in F THEN Fail
          ELSE Ok(V(0, PriorIn(K, m.version)))] :
        K \in SUBSET DeepVersions, F \in SUBSET DeepVersions,
        a \in {Ok(V(2, None)), Fail}}

InitWide ==
    /\ op = "Downgrade"
    /\ base = <<>>
    /\ extras = <<>>
    /\ reqd \in WideRequired
    /\ upg = [v \in Vertices |-> Unknown]
    /\ ovList = <<>>
    /\ upgradeTo = EmptyMap
    /\ added = {}
    /\ todo = {}
    /\ pc = [w \in Workers |-> "idle"]
    /\ item = [w \in Workers |-> NoVersion]
    /\ mu = 0
    /\ modGraph = EmptyMap
    /\ min = EmptyMap
    /\ haveErr = 0
    /\ phase = "call"
    /\ result = NoResult
    /\ prev \in WidePrevious
    /\ down = NoDown
    /\ maxImpl = "contract"
    /\ nextAdd = [w \in Workers |-> 0]

SpecDowngradeWide == InitWide /\ [][NextDeep]_vars

\* The target requires path 2 before path 0; the requirement of path 0 was
\* above its cap, reqs.Previous stepped from it over the cap, the cap was
\* excluded too, and the list holds path 2 and then the version
\* reqs.Previous returned again from the cap.
C36_Witness ==
    /\ DowngradeReturnedList
    /\ Len(reqd[Root].val) = 2 /\ reqd[Root].val[1].path = 2
    /\ Len(result.list) = 3
    /\ result.list[2] = reqd[Root].val[1]
    /\ LET x == result.list[3]
           r == reqd[Root].val[2]
           cap == V(0, down.max[0])
       IN  /\ x.path = 0
           /\ AboveMax(down.max, r)
           /\ cap \notin PreviousChain(prev, r)
           /\ cap \in down.excluded
           /\ x # cap /\ x # r
           /\ prev[r].val = x /\ prev[cap].val = x

\* ==================================================================== C37
\* Req has returned a list for an acyclic graph and a base that has no path
\* twice and does not hold the target's path.
ReqReturnedForPlainBase ==
    /\ Done /\ op = "Req" /\ result.kind = "list"
    /\ Acyclic(reqd)
    /\ \A i, j \in 1 .. Len(base) : i # j => base[i] # base[j]
    /\ RootPath \notin Range(base)

\* C37: for an acyclic graph and a base without duplicates and without the
\* target's path, the list Req returns is in strictly ascending order of
\* path, holds no element of the target's path, and every element whose
\* path is in the build list is an element of the build list.
C37_ReqSortedAtSelectedVersions ==
    ReqReturnedForPlainBase =>
        /\ \A i \in 1 .. Len(result.list) - 1 :
              result.list[i].path < result.list[i + 1].path
        /\ \A x \in Range(result.list) : x.path # RootPath
        /\ BuildList(reqd).kind = "list"
        /\ \A x \in Range(result.list) :
              x.path \in PathsOf(BuildList(reqd).list) =>
                  x \in Range(BuildList(reqd).list)

\* The base names a path above one that is in the build list at the greater
\* of two versions and a path that is not in the build list; Req has
\* returned both in order of path.
C37_Witness ==
    /\ ReqReturnedForPlainBase
    /\ Len(base) = 2 /\ base[1] > base[2]
    /\ Len(result.list) = 2
    /\ \E x \in Range(result.list) : x.path \notin PathsOf(BuildList(reqd).list)
    /\ \E x \in Range(result.list) :
          /\ x \in Range(BuildList(reqd).list)
          /\ Cardinality(NodeVersions(x.path)) = 2

\* ==================================================================== C38
\* Downgrade, lines 372-437, with at most one version to downgrade to.
DowngradeCallOne ==
    /\ phase = "call"
    /\ op = "Downgrade"
    /\ \E dl \in SeqsUpTo(DownTargets, 1), ans \in DownRequiredAnswers(Root) :
          /\ reqd' = [reqd EXCEPT ![Root] = ans]
          /\ IF ans.st = "fail"
             THEN /\ result' = ErrorResult(ErrOf(Root, "required"))
                  /\ phase' = "done"
                  /\ down' = [pc |-> "error"]
             ELSE /\ Cardinality({Root} \cup Range(ans.val)) <= MaxDownNodes
                  /\ down' = StartDown(dl, ans.val)
                  /\ phase' = "down"
                  /\ UNCHANGED result
    /\ UNCHANGED <<op, prev, bvars>>

NextDownOne ==
    \/ DowngradeCallOne
    \/ DownListNext
    \/ DownReturn
    \/ DownAdd
    \/ DownAddLoop
    \/ DownAddRet
    \/ DownWhile

\* Downgrade runs on the caller's goroutine and keeps taking steps until it
\* returns.  Every chain of answers of reqs.Previous descends strictly
\* (PreviousAnswers) and so comes to "none".
SpecDowngradeFair == InitDown /\ [][NextDownOne]_vars /\ WF_vars(NextDownOne)

\* C38: Downgrade returns, on every requirement graph, cyclic ones
\* included, and whether or not a candidate was clamped to the cap.
C38_DowngradeTerminates == <>(phase = "done")

\* Downgrade has returned a list on a graph in which an added version
\* requires itself through others, after reqs.Previous had stepped from a
\* requirement above its cap to below the cap and the walk went on with the
\* cap.
C38_Witness ==
    /\ DowngradeReturnedList
    /\ \E m \in down.added : m \in ReachFrom(reqd, Succ(reqd, m), {})
    /\ \E r \in Range(reqd[Root].val) :
          /\ AboveMax(down.max, r)
          /\ prev[r].st = "ok"
          /\ Clamp(down.max, r, prev[r].val) # prev[r].val
          /\ Clamp(down.max, r, prev[r].val) \in down.added

====
